---- MODULE Spec2Model ----
(***************************************************************************)
(* A model of the meets-match Telegram bot worker: role based command      *)
(* authorization (rbac_service), the users table and its media key list    *)
(* (user_service) and the message dispatcher (lib.rs).                     *)
(*                                                                         *)
(* Texts are sequences of one-character strings, so that trim, prefix      *)
(* tests, tokenising, lower-casing and byte length are computed and not    *)
(* assumed.                                                                *)
(***************************************************************************)
EXTENDS Integers, Sequences, FiniteSets, TLC

VARIABLES
    users,    \* the users table of the D1 database, rows in insertion order
    now,      \* the wall clock read by Utc::now()
    last,     \* the most recent event: the update handled and its response
    calls,    \* the media key calls, one per caller: in flight or returned
    perm,     \* the check_permission call under way: arguments and result
    flights,  \* the updates being handled, one per worker invocation, by statement
    sessions  \* the SESSIONS_KV namespace: the editing session of each chat, if any

vars == <<users, now, last, calls, perm, flights, sessions>>

(***************************************************************************)
(* Bounds of the model.                                                    *)
(***************************************************************************)
MaxRoles == 2
MaxClock == 1

\* the calls of user_service methods made one after the other
MaxCalls == 3

(***************************************************************************)
(* Text primitives (Rust str methods used by the worker).                  *)
(***************************************************************************)
UpperChars ==
    <<"A", "B", "C", "D", "E", "F", "G", "H", "I", "J", "K", "L", "M",
      "N", "O", "P", "Q", "R", "S", "T", "U", "V", "W", "X", "Y", "Z">>

LowerChars ==
    <<"a", "b", "c", "d", "e", "f", "g", "h", "i", "j", "k", "l", "m",
      "n", "o", "p", "q", "r", "s", "t", "u", "v", "w", "x", "y", "z">>

\* char::to_lowercase on the characters of the model
LowerChar(c) ==
    IF \E i \in 1..Len(UpperChars) : UpperChars[i] = c
    THEN LowerChars[CHOOSE i \in 1..Len(UpperChars) : UpperChars[i] = c]
    ELSE c

\* str::to_lowercase
ToLowercase(s) == [i \in 1..Len(s) |-> LowerChar(s[i])]

\* char::is_whitespace
IsWhitespace(c) == c \in {" ", "\t", "\n"}

\* the UTF-8 width of a character: str::len counts bytes
ByteWidth(c) == IF c = "ö" THEN 2 ELSE 1

RECURSIVE ByteLen(_)
\* str::len
ByteLen(s) == IF s = <<>> THEN 0 ELSE ByteWidth(Head(s)) + ByteLen(Tail(s))

\* str::trim
Trim(s) ==
    LET keep == {i \in 1..Len(s) : ~IsWhitespace(s[i])}
    IN  IF keep = {} THEN <<>>
        ELSE SubSeq(s, CHOOSE i \in keep : \A j \in keep : i <= j,
                       CHOOSE i \in keep : \A j \in keep : j <= i)

\* str::starts_with
StartsWith(s, prefix) ==
    /\ Len(s) >= Len(prefix)
    /\ SubSeq(s, 1, Len(prefix)) = prefix

\* text.split_whitespace().next().unwrap_or("")
FirstToken(s) ==
    LET t == Trim(s)
        ws == {i \in 1..Len(t) : IsWhitespace(t[i])}
    IN  IF ws = {} THEN t
        ELSE SubSeq(t, 1, (CHOOSE i \in ws : \A j \in ws : i <= j) - 1)

\* slice::contains on a Vec
Contains(vec, x) == \E i \in 1..Len(vec) : vec[i] = x

(***************************************************************************)
(* Command strings.                                                        *)
(***************************************************************************)
CmdStart == <<"/", "s", "t", "a", "r", "t">>

CmdFindMatch == <<"/", "f", "i", "n", "d", "_", "m", "a", "t", "c", "h">>

CmdProfile == <<"/", "p", "r", "o", "f", "i", "l", "e">>

CmdHelp == <<"/", "h", "e", "l", "p">>

CmdStatus == <<"/", "s", "t", "a", "t", "u", "s">>

Slash == <<"/">>

(***************************************************************************)
(* rbac_service: Role and RBACService::check_permission.                   *)
(***************************************************************************)
Role == {"User", "Admin"}

user_allowed_commands == {CmdStart, CmdFindMatch, CmdProfile, CmdHelp}

\* a plausible slip: the allow-list consulted before the roles
CheckPermissionNoRoleTest(user_roles, command) ==
    \/ Contains(user_roles, "Admin")
    \/ command \in user_allowed_commands

\* a plausible slip: the superuser test left out
CheckPermissionNoAdmin(user_roles, command) ==
    /\ Contains(user_roles, "User")
    /\ command \in user_allowed_commands

CheckPermission(user_roles, command) ==
    IF Contains(user_roles, "Admin") THEN TRUE
    ELSE IF Contains(user_roles, "User") THEN command \in user_allowed_commands
    ELSE FALSE

(***************************************************************************)
(* user_service: the User row, Option values and the D1 statements.        *)
(***************************************************************************)
MAX_USER_MEDIA_ITEMS == 5

\* Option<T>: None is the empty sequence, Some(x) the one-element sequence
None == <<>>

Some(x) == <<x>>

IsSome(o) == o # <<>>

Unwrap(o) == o[1]

UserState == {"New", "Onboarding", "Active", "Blocked"}

default_user_roles == <<"User">>

default_media_keys == <<>>

\* User::is_profile_complete
IsProfileComplete(user) == IsSome(user.name) /\ user.state = "Active"

\* the rows of `tbl` that a WHERE clause selects, as indices in rowid order
RowsWhere(tbl, Test(_)) == {i \in 1..Len(tbl) : Test(tbl[i])}

MinOf(S) == CHOOSE i \in S : \A j \in S : i <= j

\* UserService::get_user_by_telegram_id: SELECT ... WHERE telegram_id = ?1 LIMIT 1
GetUserByTelegramId(tbl, telegram_id) ==
    LET hit == RowsWhere(tbl, LAMBDA r : r.telegram_id = telegram_id)
    IN  IF hit = {} THEN None ELSE Some(tbl[MinOf(hit)])

\* UserService::get_user_by_id: SELECT ... WHERE id = ?1 LIMIT 1
GetUserById(tbl, user_id) ==
    LET hit == RowsWhere(tbl, LAMBDA r : r.id = user_id)
    IN  IF hit = {} THEN None ELSE Some(tbl[MinOf(hit)])

\* the users table is unique on telegram_id: an INSERT for an id that already
\* owns a row is refused by the store
TelegramIdTaken(tbl, telegram_id) ==
    \E i \in 1..Len(tbl) : tbl[i].telegram_id = telegram_id

\* the row built by create_user_from_telegram_user; worker::Uuid::new_v4 is a
\* fresh id, here the next row number (rows are never deleted)
NewUser(tbl, telegram_user, clock) ==
    [id |-> Len(tbl) + 1,
     telegram_id |-> telegram_user.id,
     telegram_username |-> telegram_user.username,
     name |-> None, age |-> None, gender |-> None, bio |-> None,
     location_text |-> None, latitude |-> None, longitude |-> None,
     media_keys |-> default_media_keys,
     created_at |-> clock, updated_at |-> clock, last_interaction_at |-> clock,
     state |-> "Onboarding",
     roles |-> default_user_roles]

\* a plausible slip: INSERT OR REPLACE INTO users, which deletes the row that
\* owns the telegram_id and inserts the new one
CreateUserFromTelegramUserReplace(tbl, telegram_user, clock) ==
    LET kept == SelectSeq(tbl, LAMBDA r : r.telegram_id # telegram_user.id)
        new_user == NewUser(tbl, telegram_user, clock)
    IN  [ok |-> TRUE, tbl |-> Append(kept, new_user), user |-> Some(new_user)]

\* UserService::create_user_from_telegram_user: Ok(new_user) or Err
CreateUserFromTelegramUser(tbl, telegram_user, clock) ==
    LET new_user == NewUser(tbl, telegram_user, clock)
    IN  IF TelegramIdTaken(tbl, telegram_user.id)
        THEN [ok |-> FALSE, tbl |-> tbl, user |-> None]
        ELSE [ok |-> TRUE, tbl |-> Append(tbl, new_user), user |-> Some(new_user)]

\* a plausible slip: the state column left out of the SET clause
UpdateRowStateAndNameKeepState(r, new_name, new_state, clock) ==
    [r EXCEPT !.name = new_name,
              !.updated_at = clock, !.last_interaction_at = clock]

\* the SET clause of update_user_state_and_name on one row
UpdateRowStateAndName(r, new_name, new_state, clock) ==
    [r EXCEPT !.name = new_name, !.state = new_state,
              !.updated_at = clock, !.last_interaction_at = clock]

\* UserService::update_user_state_and_name: UPDATE ... WHERE id = ?4 RETURNING
UpdateUserStateAndName(tbl, user_id, new_name, new_state, clock) ==
    LET tbl2 == [i \in 1..Len(tbl) |->
                    IF tbl[i].id = user_id
                    THEN UpdateRowStateAndName(tbl[i], new_name, new_state, clock)
                    ELSE tbl[i]]
        got == GetUserById(tbl2, user_id)
    IN  [ok |-> IsSome(got), tbl |-> tbl2, user |-> got]

\* UserService::update_user_name: UPDATE users SET name=?1, ... WHERE id=?3 RETURNING
UpdateUserName(tbl, user_id, name, clock) ==
    LET tbl2 == [i \in 1..Len(tbl) |->
                    IF tbl[i].id = user_id
                    THEN [tbl[i] EXCEPT !.name = Some(name),
                                        !.updated_at = clock, !.last_interaction_at = clock]
                    ELSE tbl[i]]
        got == GetUserById(tbl2, user_id)
    IN  [ok |-> IsSome(got), tbl |-> tbl2, user |-> got]

\* a plausible slip: updated_at left out of the SET clause
RecordUserInteractionOnlyLast(tbl, user_id, clock) ==
    [i \in 1..Len(tbl) |->
        IF tbl[i].id = user_id
        THEN [tbl[i] EXCEPT !.last_interaction_at = clock]
        ELSE tbl[i]]

\* UserService::record_user_interaction: UPDATE ... WHERE id = ?2
RecordUserInteraction(tbl, user_id, clock) ==
    [i \in 1..Len(tbl) |->
        IF tbl[i].id = user_id
        THEN [tbl[i] EXCEPT !.updated_at = clock, !.last_interaction_at = clock]
        ELSE tbl[i]]

(***************************************************************************)
(* lib.rs: responses, command handlers, dispatcher and the fetch handler.  *)
(* A handler yields [tbl, resp, handler]: the table after its statements,  *)
(* its response, and the placeholder command handler it invoked, if any.   *)
(***************************************************************************)
\* Response::from_json({"method": "sendMessage", "chat_id": .., "text": ..});
\* `arg` is the value formatted into the text, if any
SendMessage(chat_id, text, arg) ==
    [kind |-> "sendMessage", chat_id |-> Some(chat_id), text |-> text, arg |-> arg]

\* Response::error(msg, status)
ErrorResponse(status) ==
    [kind |-> "error", chat_id |-> None, text |-> status, arg |-> None]

\* Response::empty().with_status(200)
EmptyResponse ==
    [kind |-> "empty", chat_id |-> None, text |-> "", arg |-> None]

Outcome(tbl, resp, handler) == [tbl |-> tbl, resp |-> resp, handler |-> handler]

NoHandler == "none"

HandleProfileCommand(tbl, user, chat_id) ==
    Outcome(tbl,
            SendMessage(chat_id, "Placeholder for /profile. Hello, {}!",
                        IF IsSome(user.name) THEN user.name ELSE Some(<<"U", "s", "e", "r">>)),
            "handle_profile_command")

HandleFindMatchCommand(tbl, user, chat_id) ==
    Outcome(tbl,
            SendMessage(chat_id, "Placeholder for /find_match. Searching for potential matches...", None),
            "handle_find_match_command")

HandleHelpCommand(tbl, user, chat_id) ==
    Outcome(tbl,
            SendMessage(chat_id,
                        IF Contains(user.roles, "Admin")
                        THEN "Available commands: ... Admin Commands: /status - Check bot status"
                        ELSE "Available commands: ...",
                        None),
            "handle_help_command")

HandleAdminStatusCommand(tbl, user, chat_id) ==
    Outcome(tbl,
            SendMessage(chat_id, "Bot status: Healthy! (Admin View)", None),
            "handle_admin_status_command")

\* the match on command_str that ends dispatch_command
DispatchMatch(tbl, domain_user, chat_id, command_str) ==
    CASE command_str = CmdProfile -> HandleProfileCommand(tbl, domain_user, chat_id)
      [] command_str = CmdFindMatch -> HandleFindMatchCommand(tbl, domain_user, chat_id)
      [] command_str = CmdHelp -> HandleHelpCommand(tbl, domain_user, chat_id)
      [] command_str = CmdStatus ->
            IF Contains(domain_user.roles, "Admin")
            THEN HandleAdminStatusCommand(tbl, domain_user, chat_id)
            ELSE Outcome(tbl, SendMessage(chat_id, "This command is admin-only.", None), NoHandler)
      [] OTHER ->
            Outcome(tbl, SendMessage(chat_id, "Unknown command: {}. Try /help.", Some(command_str)),
                    NoHandler)

\* a plausible slip: the RBAC check left out of dispatch_command
DispatchResolvedNoRbac(tbl, found, chat_id, command_str) ==
    IF ~IsSome(found)
    THEN Outcome(tbl, SendMessage(chat_id, "Please use /start to begin.", None), NoHandler)
    ELSE DispatchMatch(tbl, Unwrap(found), chat_id, command_str)

\* a plausible slip: the command matched before the RBAC check
DispatchResolvedMatchFirst(tbl, found, chat_id, command_str) ==
    IF ~IsSome(found)
    THEN Outcome(tbl, SendMessage(chat_id, "Please use /start to begin.", None), NoHandler)
    ELSE IF command_str \notin {CmdProfile, CmdFindMatch, CmdHelp, CmdStatus}
    THEN DispatchMatch(tbl, Unwrap(found), chat_id, command_str)
    ELSE IF ~CheckPermission(Unwrap(found).roles, command_str)
    THEN Outcome(tbl, SendMessage(chat_id, "You don't have permission for that.", None),
                 NoHandler)
    ELSE DispatchMatch(tbl, Unwrap(found), chat_id, command_str)

\* dispatch_command from the result of get_user_by_telegram_id on; the
\* session timeout check it makes only logs
DispatchResolved(tbl, found, chat_id, command_str) ==
    IF ~IsSome(found)
    THEN Outcome(tbl, SendMessage(chat_id, "Please use /start to begin.", None), NoHandler)
    ELSE IF ~CheckPermission(Unwrap(found).roles, command_str)
    THEN Outcome(tbl, SendMessage(chat_id, "You don't have permission for that.", None),
                 NoHandler)
    ELSE DispatchMatch(tbl, Unwrap(found), chat_id, command_str)

\* dispatch_command
DispatchCommand(tbl, telegram_user_opt, chat_id, text, clock) ==
    IF ~IsSome(telegram_user_opt)
    THEN Outcome(tbl, SendMessage(chat_id, "Cannot identify sender.", None), NoHandler)
    ELSE DispatchResolved(tbl, GetUserByTelegramId(tbl, Unwrap(telegram_user_opt).id),
                          chat_id, ToLowercase(FirstToken(text)))

\* handle_start_command, the arm for a sender who owns a row
StartExisting(tbl, domain_user, chat_id, clock) ==
    IF ~CheckPermission(domain_user.roles, CmdStart)
    THEN Outcome(tbl, SendMessage(chat_id, "Access denied.", None), NoHandler)
    ELSE IF domain_user.state = "Blocked"
    THEN Outcome(tbl, SendMessage(chat_id, "Your account is blocked.", None), NoHandler)
    ELSE IF IsProfileComplete(domain_user)
    THEN Outcome(tbl, SendMessage(chat_id, "Welcome back, {}! Menu", domain_user.name), NoHandler)
    ELSE IF ~IsSome(domain_user.name)
    THEN Outcome(tbl, SendMessage(chat_id, "Welcome! What's your name?", None), NoHandler)
    ELSE LET upd == UpdateUserStateAndName(tbl, domain_user.id, domain_user.name,
                                           "Active", clock)
         IN  IF upd.ok
             THEN Outcome(upd.tbl,
                          SendMessage(chat_id, "Thanks, {}! Profile active. Menu",
                                      Unwrap(upd.user).name),
                          NoHandler)
             ELSE Outcome(upd.tbl, SendMessage(chat_id, "Error activating profile.", None),
                          NoHandler)

\* handle_start_command, the arm for a sender unknown to the store
StartNew(tbl, telegram_user, chat_id, clock) ==
    LET created == CreateUserFromTelegramUser(tbl, telegram_user, clock)
    IN  IF ~created.ok
        THEN Outcome(created.tbl, SendMessage(chat_id, "Account creation failed.", None),
                     NoHandler)
        ELSE IF ~CheckPermission(Unwrap(created.user).roles, CmdStart)
        THEN Outcome(created.tbl, SendMessage(chat_id, "Account permission error.", None),
                     NoHandler)
        ELSE Outcome(created.tbl, SendMessage(chat_id, "Welcome! What's your name?", None),
                     NoHandler)

\* handle_start_command from the result of get_user_by_telegram_id on
StartResolved(tbl, found, telegram_user, chat_id, clock) ==
    IF IsSome(found)
    THEN StartExisting(tbl, Unwrap(found), chat_id, clock)
    ELSE StartNew(tbl, telegram_user, chat_id, clock)

\* handle_start_command
HandleStartCommand(tbl, telegram_user_opt, chat_id, clock) ==
    IF ~IsSome(telegram_user_opt)
    THEN Outcome(tbl, SendMessage(chat_id, "Cannot identify you.", None), NoHandler)
    ELSE StartResolved(tbl, GetUserByTelegramId(tbl, Unwrap(telegram_user_opt).id),
                       Unwrap(telegram_user_opt), chat_id, clock)

\* the longest name handle_onboarding_message accepts, in bytes
MaxNameLen == 50

\* a plausible slip: the length test left out
NameRejectedNoLength(name_to_set) ==
    \/ name_to_set = <<>>
    \/ StartsWith(name_to_set, Slash)

\* a plausible slip: the emptiness test left out
NameRejectedNoEmpty(name_to_set) ==
    \/ ByteLen(name_to_set) > MaxNameLen
    \/ StartsWith(name_to_set, Slash)

\* the validation of the candidate name in handle_onboarding_message
NameRejected(name_to_set) ==
    \/ name_to_set = <<>>
    \/ ByteLen(name_to_set) > MaxNameLen
    \/ StartsWith(name_to_set, Slash)

\* a plausible slip: the name test of the guard left out
AwaitingNameAnyName(current_user) ==
    current_user.state = "Onboarding"

\* a plausible slip: the state test of the guard left out
AwaitingNameAnyState(current_user) ==
    ~IsSome(current_user.name)

\* the guard of the name step in handle_onboarding_message
AwaitingName(current_user) ==
    current_user.state = "Onboarding" /\ ~IsSome(current_user.name)

\* handle_onboarding_message from the result of get_user_by_telegram_id on
OnboardingResolved(tbl, found, chat_id, text, clock) ==
    LET current_user == Unwrap(found)
        name_to_set == Trim(text)
        upd == UpdateUserStateAndName(tbl, current_user.id, Some(name_to_set),
                                      "Active", clock)
    IN  IF ~IsSome(found)
        THEN Outcome(tbl, SendMessage(chat_id, "Please /start to begin.", None), NoHandler)
        ELSE IF ~AwaitingName(current_user)
        THEN Outcome(tbl, SendMessage(chat_id, "Not sure what you mean. Try /start.", None),
                     NoHandler)
        ELSE IF NameRejected(name_to_set)
        THEN Outcome(tbl, SendMessage(chat_id, "Invalid name. 1-50 chars, no commands.", None),
                     NoHandler)
        ELSE IF upd.ok
        THEN Outcome(upd.tbl,
                     SendMessage(chat_id, "Great, {}! Profile complete. Menu",
                                 Unwrap(upd.user).name),
                     NoHandler)
        ELSE Outcome(upd.tbl, SendMessage(chat_id, "Error saving name.", None), NoHandler)

\* a plausible slip: the sender looked up without the test for a sender, a
\* message of nobody answered as one of an unknown sender
HandleOnboardingMessageNoSenderTest(tbl, telegram_user_opt, chat_id, text, clock) ==
    IF ~IsSome(telegram_user_opt)
    THEN Outcome(tbl, SendMessage(chat_id, "Please /start to begin.", None), NoHandler)
    ELSE OnboardingResolved(tbl, GetUserByTelegramId(tbl, Unwrap(telegram_user_opt).id),
                            chat_id, text, clock)

\* handle_onboarding_message
HandleOnboardingMessage(tbl, telegram_user_opt, chat_id, text, clock) ==
    IF ~IsSome(telegram_user_opt)
    THEN Outcome(tbl, SendMessage(chat_id, "Cannot identify sender.", None), NoHandler)
    ELSE OnboardingResolved(tbl, GetUserByTelegramId(tbl, Unwrap(telegram_user_opt).id),
                            chat_id, text, clock)

\* main, the routing of a text message on its trimmed text
RouteText(tbl, telegram_user_opt, chat_id, text, clock) ==
    LET text_trimmed == Trim(text)
    IN  IF StartsWith(text_trimmed, CmdStart)
        THEN HandleStartCommand(tbl, telegram_user_opt, chat_id, clock)
        ELSE IF StartsWith(text_trimmed, Slash)
        THEN DispatchCommand(tbl, telegram_user_opt, chat_id, text_trimmed, clock)
        ELSE HandleOnboardingMessage(tbl, telegram_user_opt, chat_id, text_trimmed, clock)

\* main, after the handler of a text message: the sender is fetched again and,
\* when found, record_user_interaction stamps the row; an error of that call
\* is logged and the response kept
RecordInteractionAfter(out, telegram_user_opt, clock) ==
    LET refetched == IF IsSome(telegram_user_opt)
                     THEN GetUserByTelegramId(out.tbl, Unwrap(telegram_user_opt).id)
                     ELSE None
    IN  IF IsSome(refetched)
        THEN [out EXCEPT !.tbl = RecordUserInteraction(out.tbl, Unwrap(refetched).id, clock)]
        ELSE out

\* main (the fetch event handler) on one request
Main(tbl, req, clock) ==
    IF req.method # "POST"
    THEN Outcome(tbl, ErrorResponse("405"), NoHandler)
    ELSE IF ~req.json_ok
    THEN Outcome(tbl, ErrorResponse("400"), NoHandler)
    ELSE IF ~IsSome(req.message)
    THEN Outcome(tbl, EmptyResponse, NoHandler)
    ELSE LET message == Unwrap(req.message)
         IN  IF ~IsSome(message.text)
             THEN Outcome(tbl, SendMessage(message.chat.id, "I only understand text.", None),
                          NoHandler)
             ELSE RecordInteractionAfter(
                      RouteText(tbl, message.from, message.chat.id,
                                Unwrap(message.text), clock),
                      message.from, clock)

(***************************************************************************)
(* The inputs of the dispatcher: senders, chats and message texts.         *)
(***************************************************************************)
TelegramIds == {11, 12}

ChatIds == {501}

TelegramUser(id) == [id |-> id, username |-> None]

TxtStartPadded == <<" ", "/", "s", "t", "a", "r", "t", " ">>

TxtStartX == <<"/", "s", "t", "a", "r", "t", "x">>

TxtHelpUpper == <<"/", "H", "E", "L", "P">>

TxtStartUpper == <<"/", "S", "T", "A", "R", "T">>

TxtUnknownCmd == <<"/", "f", "o", "o">>

\* 50 bytes in 25 characters: the longest name accepted
TxtName == [i \in 1..25 |-> "ö"]

TxtNamePadded == <<" ">> \o TxtName \o <<" ">>

TxtBlank == <<" ", " ">>

TxtHello == <<"h", "i">>

\* 51 bytes
TxtFiftyOne == [i \in 1..51 |-> "a"]

\* 52 bytes in 26 characters
TxtUmlauts == [i \in 1..26 |-> "ö"]

CommandTexts ==
    {CmdStart, TxtStartPadded, TxtStartX, TxtStartUpper, CmdHelp, TxtHelpUpper,
     CmdProfile, CmdFindMatch, CmdStatus, TxtUnknownCmd}

FreeTexts == {TxtName, TxtNamePadded, TxtBlank, TxtFiftyOne, TxtUmlauts}

Texts == CommandTexts \cup FreeTexts

\* TelegramMessage
Messages ==
    [from : {None} \cup {Some(TelegramUser(t)) : t \in TelegramIds},
     chat : [id : ChatIds],
     text : {None} \cup {Some(x) : x \in Texts}]

\* the requests the worker receives: a method, whether the body parses as a
\* TelegramUpdate, and the update's message
Requests ==
    {[method |-> "GET", json_ok |-> TRUE, message |-> None],
     [method |-> "POST", json_ok |-> FALSE, message |-> None],
     [method |-> "POST", json_ok |-> TRUE, message |-> None]}
    \cup {[method |-> "POST", json_ok |-> TRUE, message |-> Some(m)] : m \in Messages}

\* the role vectors an administrator stores in a row
AdminRoleVecs == {<<"User">>, <<"Admin">>}

(***************************************************************************)
(* The state machine of the dispatcher.                                    *)
(***************************************************************************)
NoEvent == [req |-> None, resp |-> EmptyResponse, handler |-> NoHandler]

NoCall == [pc |-> "idle"]

MediaCallers == {"c1", "c2"}

\* the invocations of the worker that handle updates at the same time
Workers == {"w1", "w2"}

Init ==
    /\ users = <<>>
    /\ now = 0
    /\ last = NoEvent
    /\ calls = [c \in MediaCallers |-> NoCall]
    /\ perm = NoCall
    /\ flights = [w \in Workers |-> NoCall]
    /\ sessions = [c \in ChatIds |-> None]

\* one request handled by main, from its arrival to its response
Fetch(req) ==
    \E out \in {Main(users, req, now)} :
        /\ users' = out.tbl
        /\ last' = [req |-> Some(req), resp |-> out.resp, handler |-> out.handler]
        /\ UNCHANGED <<now, calls, perm, flights, sessions>>

\* an administrator blocks a user (done outside the worker, on the table)
AdminBlockUser(telegram_id) ==
    /\ \E i \in 1..Len(users) :
          /\ users[i].telegram_id = telegram_id
          /\ users[i].state # "Blocked"
          /\ users' = [users EXCEPT ![i].state = "Blocked"]
    /\ last' = NoEvent
    /\ UNCHANGED <<now, calls, perm, flights, sessions>>

\* an administrator sets the roles of a user (done outside the worker)
AdminSetRoles(telegram_id, roles) ==
    /\ \E i \in 1..Len(users) :
          /\ users[i].telegram_id = telegram_id
          /\ users[i].roles # roles
          /\ users' = [users EXCEPT ![i].roles = roles]
    /\ last' = NoEvent
    /\ UNCHANGED <<now, calls, perm, flights, sessions>>

\* a caller of UserService::update_user_name (the profile editor) names a user
CallUpdateUserName(user_id, name) ==
    /\ \E upd \in {UpdateUserName(users, user_id, name, now)} :
          /\ upd.ok
          /\ users' = upd.tbl
    /\ last' = NoEvent
    /\ UNCHANGED <<now, calls, perm, flights, sessions>>

Next ==
    \/ \E req \in Requests : Fetch(req)
    \/ \E t \in TelegramIds : AdminBlockUser(t)
    \/ \E t \in TelegramIds, roles \in AdminRoleVecs : AdminSetRoles(t, roles)
    \/ \E id \in 1..Len(users) : CallUpdateUserName(id, TxtName)

Spec == Init /\ [][Next]_vars

(***************************************************************************)
(* check_permission on its own: every role vector of up to MaxRoles roles  *)
(* against the command strings of the worker and of its tests.             *)
(***************************************************************************)
CmdAdminSettings ==
    <<"/", "a", "d", "m", "i", "n", "_", "s", "e", "t", "t", "i", "n", "g", "s">>

CmdUndefined == <<"/", "s", "o", "m", "e", "_", "u", "n", "d", "e", "f">>

TxtNoSlash == <<"h", "e", "l", "p">>

RoleVecs == UNION {[1..n -> Role] : n \in 0..MaxRoles}

PermCommands ==
    {CmdStart, CmdFindMatch, CmdProfile, CmdHelp, CmdStatus, CmdAdminSettings,
     CmdUndefined, TxtUnknownCmd, TxtHelpUpper, TxtStartX, TxtNoSlash, Slash, <<>>}

InitPerm ==
    /\ users = <<>>
    /\ now = 0
    /\ last = NoEvent
    /\ calls = [c \in MediaCallers |-> NoCall]
    /\ perm \in [pc : {"called"}, user_roles : RoleVecs, command : PermCommands,
                 result : {FALSE}]
    /\ flights = [w \in Workers |-> NoCall]
    /\ sessions = [c \in ChatIds |-> None]

\* check_permission returns
PermReturn ==
    /\ perm.pc = "called"
    /\ perm' = [perm EXCEPT !.pc = "returned",
                            !.result = CheckPermission(perm.user_roles, perm.command)]
    /\ UNCHANGED <<users, now, last, calls, flights, sessions>>

\* the next call of check_permission
PermCall(user_roles, command) ==
    /\ perm.pc = "returned"
    /\ perm' = [pc |-> "called", user_roles |-> user_roles, command |-> command,
                result |-> FALSE]
    /\ UNCHANGED <<users, now, last, calls, flights, sessions>>

NextPerm ==
    \/ PermReturn
    \/ \E user_roles \in RoleVecs, command \in PermCommands : PermCall(user_roles, command)

PermSpec == InitPerm /\ [][NextPerm]_vars

\* C1: check_permission(R, C) is true if Admin is in R; otherwise it is true
\* exactly when User is in R and C is /start, /find_match, /profile or /help;
\* otherwise it is false.
C1_PermissionTable ==
    perm.pc = "returned" =>
        LET R == {perm.user_roles[i] : i \in 1..Len(perm.user_roles)}
            C == perm.command
        IN  perm.result =
              IF "Admin" \in R THEN TRUE
              ELSE IF "User" \in R
                   THEN C \in {CmdStart, CmdFindMatch, CmdProfile, CmdHelp}
                   ELSE FALSE

\* a call with no role at all, on an allow-listed command, has returned false
C1_Witness ==
    /\ perm.pc = "returned"
    /\ perm.user_roles = <<>>
    /\ perm.command = CmdHelp
    /\ perm.result = FALSE

(***************************************************************************)
(* Properties of the dispatcher.                                           *)
(***************************************************************************)
\* the request carries a text message of an identified sender
FromSender(req) ==
    /\ req.method = "POST" /\ req.json_ok
    /\ IsSome(req.message)
    /\ IsSome(Unwrap(req.message).text)
    /\ IsSome(Unwrap(req.message).from)

SenderOf(req) == Unwrap(Unwrap(req.message).from).id

TrimmedTextOf(req) == Trim(Unwrap(Unwrap(req.message).text))

\* a command message: its trimmed text begins with the command prefix
IsCommandMessage(req) == FromSender(req) /\ StartsWith(TrimmedTextOf(req), Slash)

\* the start command, as main recognises it
IsStartMessage(req) == FromSender(req) /\ StartsWith(TrimmedTextOf(req), CmdStart)

IsFreeTextMessage(req) == FromSender(req) /\ ~StartsWith(TrimmedTextOf(req), Slash)

\* the rows of a table owned by an external id
RowsOf(tbl, telegram_id) == {i \in 1..Len(tbl) : tbl[i].telegram_id = telegram_id}

\* a step in which main handles a request: Fetch records the request in
\* `last`, and every other action clears it
Handled == IsSome(last'.req)

\* the request handled by the step
HandledReq == Unwrap(last'.req)

\* the replies of the worker that deny a request
DenialReplies ==
    {"Your account is blocked.", "Access denied.", "You don't have permission for that."}

\* C2 (as claimed): a command message of a user whose stored state is Blocked,
\* whatever the roles, gets a denial reply and no command handler is invoked.
\* Every denial text of the worker counts as the denial here, so that only a
\* command that is served refutes it. (The last event is the request; nothing
\* happened since, and no request blocks a user, so the sender was Blocked
\* when it was handled.)
C2_BlockedAlwaysDenied ==
    \A req \in Requests :
        (/\ last.req = Some(req)
         /\ IsCommandMessage(req)
         /\ \E i \in RowsOf(users, SenderOf(req)) : users[i].state = "Blocked")
        => /\ last.resp.text \in DenialReplies
           /\ last.handler = NoHandler

\* the name a text offers: non-empty after trimming, at most 50 bytes, and not
\* beginning with the command prefix
IsValidName(name) ==
    /\ Len(name) >= 1
    /\ ByteLen(name) <= 50
    /\ name[1] # "/"

\* C8, the start step: a start message from an external id unknown to the
\* store adds exactly one row, for that id, with state Onboarding, no name,
\* roles <<User>> and no media keys, and the reply asks for the name.
C8_StartCreates(req) ==
    (IsStartMessage(req) /\ RowsOf(users, SenderOf(req)) = {})
    => /\ Len(users') = Len(users) + 1
       /\ SubSeq(users', 1, Len(users)) = users
       /\ LET row == users'[Len(users')]
          IN  /\ row.telegram_id = SenderOf(req)
              /\ row.state = "Onboarding"
              /\ row.name = None
              /\ row.roles = <<"User">>
              /\ row.media_keys = <<>>
       /\ last'.resp.text = "Welcome! What's your name?"

\* C8, the name step: a free-text message with a valid name from a sender in
\* Onboarding with no name sets the name to the trimmed text and the state to
\* Active, and the reply shows the menu.
C8_NameActivates(req) ==
    \A i \in 1..Len(users) :
        (/\ IsFreeTextMessage(req)
         /\ users[i].telegram_id = SenderOf(req)
         /\ users[i].state = "Onboarding" /\ users[i].name = None
         /\ IsValidName(TrimmedTextOf(req)))
        => /\ Len(users') = Len(users)
           /\ users'[i].name = Some(TrimmedTextOf(req))
           /\ users'[i].state = "Active"
           /\ last'.resp.text = "Great, {}! Profile complete. Menu"
           /\ last'.resp.arg = Some(TrimmedTextOf(req))

\* C8: the onboarding flow, step by step: every handled request that is a
\* start message of an unknown sender creates the Onboarding row and asks for
\* the name; every handled free text with a valid name of such a user names
\* and activates it and shows the menu.
C8_OnboardingFlow ==
    [][Handled => (C8_StartCreates(HandledReq) /\ C8_NameActivates(HandledReq))]_vars

\* the flow has run to its end: the last request is a valid name, and its
\* sender is Active under that name and was shown the menu
C8_Witness ==
    \E req \in Requests :
        /\ last.req = Some(req)
        /\ IsFreeTextMessage(req)
        /\ IsValidName(TrimmedTextOf(req))
        /\ Unwrap(Unwrap(req.message).text) # TrimmedTextOf(req)
        /\ last.resp.text = "Great, {}! Profile complete. Menu"
        /\ \E i \in RowsOf(users, SenderOf(req)) :
              /\ users[i].state = "Active"
              /\ users[i].name = Some(TrimmedTextOf(req))
              /\ users[i].roles = <<"User">>
        /\ Len(users) = 2

\* C9, on one handled request: free text of a user who is not in Onboarding,
\* or who has a name, changes neither the name nor the state of that user and
\* is answered with the free-text fallback.
C9_KeepsNameAndState(req) ==
    \A i \in 1..Len(users) :
        (/\ IsFreeTextMessage(req)
         /\ users[i].telegram_id = SenderOf(req)
         /\ (users[i].state # "Onboarding" \/ users[i].name # None))
        => /\ Len(users') = Len(users)
           /\ users'[i].name = users[i].name
           /\ users'[i].state = users[i].state
           /\ last'.resp.text = "Not sure what you mean. Try /start."

\* C9: a free-text message processed for a user whose stored state is not
\* Onboarding, or whose name is already set, changes neither the user's name
\* nor the user's state and gets the ordinary free-text fallback reply.
C9_FreeTextFrame == [][Handled => C9_KeepsNameAndState(HandledReq)]_vars

\* an Active user has sent the own name again, as free text, and got the
\* fallback; the name stands
C9_Witness ==
    \E req \in Requests :
        /\ last.req = Some(req)
        /\ IsFreeTextMessage(req)
        /\ last.resp.text = "Not sure what you mean. Try /start."
        /\ \E i \in RowsOf(users, SenderOf(req)) :
              /\ users[i].state = "Active"
              /\ users[i].name = Some(TrimmedTextOf(req))

\* the replies that ask for the name
NamePrompts == {"Invalid name. 1-50 chars, no commands.", "Welcome! What's your name?"}

\* C10 (as claimed): for a user in Onboarding with no name, a message whose
\* text is invalid as a name (empty after trimming, longer than 50, or
\* beginning with '/') is answered with a prompt for the name. (The last event
\* is the request and the sender is still in Onboarding with no name; either
\* prompt of the worker counts.)
C10_InvalidNameReprompted ==
    \A req \in Requests :
        (/\ last.req = Some(req)
         /\ FromSender(req)
         /\ ~IsValidName(TrimmedTextOf(req))
         /\ \E i \in RowsOf(users, SenderOf(req)) :
               users[i].state = "Onboarding" /\ users[i].name = None)
        => last.resp.text \in NamePrompts

\* C10 as amended, on one handled request: the text that is invalid as a name
\* leaves state and name; it is answered with the re-prompt unless it begins
\* with '/', and then it is never answered with the re-prompt of the name step
C10_KeepsOnboarding(req) ==
    \A i \in 1..Len(users) :
        (/\ FromSender(req)
         /\ users[i].telegram_id = SenderOf(req)
         /\ users[i].state = "Onboarding" /\ users[i].name = None
         /\ ~IsValidName(TrimmedTextOf(req)))
        => /\ Len(users') = Len(users)
           /\ users'[i].state = "Onboarding"
           /\ users'[i].name = None
           /\ ~StartsWith(TrimmedTextOf(req), Slash)
                 <=> last'.resp.text = "Invalid name. 1-50 chars, no commands."

\* C10 (amended): for a user in Onboarding with no name, a message whose text
\* is invalid as a name leaves the user's state and name unchanged; the reply
\* is the re-prompt for the name when the text is empty after trimming or
\* longer than 50 bytes, and the reply of the command when it begins with '/'.
C10_InvalidNameKeepsUser == [][Handled => C10_KeepsOnboarding(HandledReq)]_vars

\* a name of 26 characters in 52 bytes was refused and its sender is still in
\* Onboarding with no name
C10_Witness ==
    \E req \in Requests :
        /\ last.req = Some(req)
        /\ IsFreeTextMessage(req)
        /\ ByteLen(TrimmedTextOf(req)) > 50
        /\ Len(TrimmedTextOf(req)) <= 50
        /\ last.resp.text = "Invalid name. 1-50 chars, no commands."
        /\ \E i \in RowsOf(users, SenderOf(req)) :
              users[i].state = "Onboarding" /\ users[i].name = None

(***************************************************************************)
(* user_service: media key management.  Each method reads the row, changes *)
(* the list it read and writes the whole list back; the two statements are *)
(* separated by an await, so the calls of several requests interleave      *)
(* between a call's read and its write.                                    *)
(***************************************************************************)
ErrUserNotFound == "User not found with id"

ErrMediaLimit == "Media limit (5) reached."

ErrNotFoundAfter == "User not found after the media key statement"

MediaOk == "Ok"

\* a plausible slip: the limit compared with > in place of >=
AddMediaKeyLocalOffByOne(current_user, r2_object_key) ==
    IF Len(current_user.media_keys) > MAX_USER_MEDIA_ITEMS
    THEN [ok |-> FALSE, media_keys |-> current_user.media_keys]
    ELSE IF ~Contains(current_user.media_keys, r2_object_key)
         THEN [ok |-> TRUE, media_keys |-> Append(current_user.media_keys, r2_object_key)]
         ELSE [ok |-> TRUE, media_keys |-> current_user.media_keys]

\* a plausible slip: the contains test left out, every key is pushed
AddMediaKeyLocalAlwaysPush(current_user, r2_object_key) ==
    IF Len(current_user.media_keys) >= MAX_USER_MEDIA_ITEMS
    THEN [ok |-> FALSE, media_keys |-> current_user.media_keys]
    ELSE [ok |-> TRUE, media_keys |-> Append(current_user.media_keys, r2_object_key)]

\* a plausible slip: the limit test left out
AddMediaKeyLocalNoLimit(current_user, r2_object_key) ==
    IF ~Contains(current_user.media_keys, r2_object_key)
    THEN [ok |-> TRUE, media_keys |-> Append(current_user.media_keys, r2_object_key)]
    ELSE [ok |-> TRUE, media_keys |-> current_user.media_keys]

\* add_media_key_to_user between its two statements: the limit test first,
\* then the push of a key the list does not contain
AddMediaKeyLocal(current_user, r2_object_key) ==
    IF Len(current_user.media_keys) >= MAX_USER_MEDIA_ITEMS
    THEN [ok |-> FALSE, media_keys |-> current_user.media_keys]
    ELSE IF ~Contains(current_user.media_keys, r2_object_key)
         THEN [ok |-> TRUE, media_keys |-> Append(current_user.media_keys, r2_object_key)]
         ELSE [ok |-> TRUE, media_keys |-> current_user.media_keys]

\* a plausible slip: Vec::pop when the key has no position in the list
RetainKeysPopWhenAbsent(media_keys, r2_object_key_to_remove) ==
    IF Contains(media_keys, r2_object_key_to_remove)
    THEN SelectSeq(media_keys, LAMBDA key : key # r2_object_key_to_remove)
    ELSE SubSeq(media_keys, 1, Len(media_keys) - 1)

\* a plausible slip: Vec::swap_remove, which moves the last key into the gap
RetainKeysSwapRemove(media_keys, r2_object_key_to_remove) ==
    IF Contains(media_keys, r2_object_key_to_remove)
    THEN LET p == CHOOSE i \in 1..Len(media_keys) : media_keys[i] = r2_object_key_to_remove
         IN  [i \in 1..(Len(media_keys) - 1) |->
                 IF i = p THEN media_keys[Len(media_keys)] ELSE media_keys[i]]
    ELSE media_keys

\* a plausible slip: retain with the test inverted, which keeps only the key
RetainKeysInverted(media_keys, r2_object_key_to_remove) ==
    SelectSeq(media_keys, LAMBDA key : key = r2_object_key_to_remove)

\* current_user.media_keys.retain(|key| key != r2_object_key_to_remove)
RetainKeys(media_keys, r2_object_key_to_remove) ==
    SelectSeq(media_keys, LAMBDA key : key # r2_object_key_to_remove)

\* UPDATE users SET media_keys = ?1, updated_at = ?2, last_interaction_at = ?2
\* WHERE id = ?3 RETURNING ..., then .first(None): the statement both methods end with
UpdateUserMediaKeys(tbl, user_id, media_keys, clock) ==
    LET tbl2 == [i \in 1..Len(tbl) |->
                    IF tbl[i].id = user_id
                    THEN [tbl[i] EXCEPT !.media_keys = media_keys,
                                        !.updated_at = clock, !.last_interaction_at = clock]
                    ELSE tbl[i]]
        got == GetUserById(tbl2, user_id)
    IN  [ok |-> IsSome(got), tbl |-> tbl2, user |-> got]

\* a call between its read and its write: the list it read, the list it
\* is about to write and the Utc::now() it took
CallWriting(op, user_id, key, read_keys, media_keys, clock) ==
    [pc |-> "writing", op |-> op, user_id |-> user_id, key |-> key,
     read_keys |-> read_keys, media_keys |-> media_keys, stamp |-> clock,
     result |-> "pending"]

\* a call that has returned: Ok(user) with the user's list, or Err(result)
CallReturned(op, user_id, key, read_keys, media_keys, clock, result) ==
    [pc |-> "returned", op |-> op, user_id |-> user_id, key |-> key,
     read_keys |-> read_keys, media_keys |-> media_keys, stamp |-> clock,
     result |-> result]

(***************************************************************************)
(* The state machine of the media key methods: callers that each make one  *)
(* call, on a table whose rows already hold media keys.                    *)
(***************************************************************************)
KeyList == <<"k1", "k2", "k3", "k4", "k5">>

MediaKeys == {"k1", "k2", "k3", "k4", "k5", "k6"}

\* the ids the calls name: the two rows of the table and an id of no row
MediaUserIds == {1, 2, 3}

\* a row as create_user_from_telegram_user built it, after uploads
MediaRow(tbl, telegram_id, media_keys) ==
    [NewUser(tbl, TelegramUser(telegram_id), 0) EXCEPT !.media_keys = media_keys]

InitMedia ==
    /\ \E n \in 0..MAX_USER_MEDIA_ITEMS :
          LET first == MediaRow(<<>>, 11, SubSeq(KeyList, 1, n))
          IN  users = <<first, MediaRow(<<first>>, 12, <<"k6", "k1">>)>>
    /\ now = 0
    /\ last = NoEvent
    /\ calls = [c \in MediaCallers |-> NoCall]
    /\ perm = NoCall
    /\ flights = [w \in Workers |-> NoCall]
    /\ sessions = [c \in ChatIds |-> None]

\* add_media_key_to_user up to its UPDATE: get_user_by_id, the limit test
\* and the push
AddMediaKeyRead(c, user_id, r2_object_key) ==
    /\ calls[c].pc = "idle"
    /\ \E got \in {GetUserById(users, user_id)} :
          calls' = [calls EXCEPT ![c] =
              IF ~IsSome(got)
              THEN CallReturned("add", user_id, r2_object_key, <<>>, <<>>, now,
                                ErrUserNotFound)
              ELSE LET current_user == Unwrap(got)
                       local == AddMediaKeyLocal(current_user, r2_object_key)
                   IN  IF ~local.ok
                       THEN CallReturned("add", user_id, r2_object_key,
                                         current_user.media_keys,
                                         current_user.media_keys, now, ErrMediaLimit)
                       ELSE CallWriting("add", user_id, r2_object_key,
                                        current_user.media_keys, local.media_keys, now)]
    /\ UNCHANGED <<users, now, last, perm, flights, sessions>>

\* add_media_key_to_user: its UPDATE ... RETURNING and its result
AddMediaKeyWrite(c) ==
    /\ calls[c].pc = "writing"
    /\ calls[c].op = "add"
    /\ \E upd \in {UpdateUserMediaKeys(users, calls[c].user_id, calls[c].media_keys,
                                      calls[c].stamp)} :
          /\ users' = upd.tbl
          /\ calls' = [calls EXCEPT ![c] =
                CallReturned("add", calls[c].user_id, calls[c].key, calls[c].read_keys,
                             IF upd.ok THEN Unwrap(upd.user).media_keys ELSE <<>>,
                             calls[c].stamp,
                             IF upd.ok THEN MediaOk ELSE ErrNotFoundAfter)]
    /\ UNCHANGED <<now, last, perm, flights, sessions>>

\* remove_media_key_from_user up to its UPDATE: get_user_by_id and retain
RemoveMediaKeyRead(c, user_id, r2_object_key_to_remove) ==
    /\ calls[c].pc = "idle"
    /\ \E got \in {GetUserById(users, user_id)} :
          calls' = [calls EXCEPT ![c] =
              IF ~IsSome(got)
              THEN CallReturned("remove", user_id, r2_object_key_to_remove, <<>>, <<>>,
                                now, ErrUserNotFound)
              ELSE CallWriting("remove", user_id, r2_object_key_to_remove,
                               Unwrap(got).media_keys,
                               RetainKeys(Unwrap(got).media_keys, r2_object_key_to_remove),
                               now)]
    /\ UNCHANGED <<users, now, last, perm, flights, sessions>>

\* remove_media_key_from_user: its UPDATE ... RETURNING and its result
RemoveMediaKeyWrite(c) ==
    /\ calls[c].pc = "writing"
    /\ calls[c].op = "remove"
    /\ \E upd \in {UpdateUserMediaKeys(users, calls[c].user_id, calls[c].media_keys,
                                      calls[c].stamp)} :
          /\ users' = upd.tbl
          /\ calls' = [calls EXCEPT ![c] =
                CallReturned("remove", calls[c].user_id, calls[c].key, calls[c].read_keys,
                             IF upd.ok THEN Unwrap(upd.user).media_keys ELSE <<>>,
                             calls[c].stamp,
                             IF upd.ok THEN MediaOk ELSE ErrNotFoundAfter)]
    /\ UNCHANGED <<now, last, perm, flights, sessions>>

\* time passes between two statements
Tick ==
    /\ now < MaxClock
    /\ now' = now + 1
    /\ UNCHANGED <<users, last, calls, perm, flights, sessions>>

NextMedia ==
    \/ \E c \in MediaCallers, id \in MediaUserIds, k \in MediaKeys : AddMediaKeyRead(c, id, k)
    \/ \E c \in MediaCallers : AddMediaKeyWrite(c)
    \/ \E c \in MediaCallers, id \in MediaUserIds, k \in MediaKeys : RemoveMediaKeyRead(c, id, k)
    \/ \E c \in MediaCallers : RemoveMediaKeyWrite(c)
    \/ Tick

MediaSpec == InitMedia /\ [][NextMedia]_vars

(***************************************************************************)
(* Properties of the media key methods.                                    *)
(***************************************************************************)
\* the stored list of the row a call names
StoredKeys(tbl, user_id) == Unwrap(GetUserById(tbl, user_id)).media_keys

\* caller c's call reads the row in this step
ReadBy(c) == calls[c].pc = "idle" /\ calls'[c].pc # "idle"

\* caller c's call writes the row in this step
WrittenBy(c) == calls[c].pc = "writing" /\ calls'[c].pc = "returned"

\* C3: in every reachable state, whatever the interleaving of the adds and
\* removes on a user, every stored media_keys list has at most
\* MAX_USER_MEDIA_ITEMS (5) entries.
C3_MediaListBounded ==
    \A i \in 1..Len(users) : Len(users[i].media_keys) <= MAX_USER_MEDIA_ITEMS

\* two adds on one user both returned Ok, the list is full and the key of
\* one of them was overwritten by the other's write
C3_Witness ==
    \E c1, c2 \in MediaCallers :
        /\ c1 # c2
        /\ calls[c1].pc = "returned" /\ calls[c2].pc = "returned"
        /\ calls[c1].op = "add" /\ calls[c2].op = "add"
        /\ calls[c1].result = MediaOk /\ calls[c2].result = MediaOk
        /\ calls[c1].user_id = calls[c2].user_id
        /\ Len(StoredKeys(users, calls[c1].user_id)) = MAX_USER_MEDIA_ITEMS
        /\ ~Contains(StoredKeys(users, calls[c1].user_id), calls[c1].key)

\* C4: once the list of a user holds 5 keys, an add of a key the list does
\* not hold returns the limit error and writes nothing: the table is as it was.
C4_LimitErrorAtCapacity ==
    [][\A c \in MediaCallers :
          (/\ ReadBy(c)
           /\ calls'[c].op = "add"
           /\ IsSome(GetUserById(users, calls'[c].user_id))
           /\ Len(StoredKeys(users, calls'[c].user_id)) = MAX_USER_MEDIA_ITEMS
           /\ ~Contains(StoredKeys(users, calls'[c].user_id), calls'[c].key))
          => (/\ calls'[c].pc = "returned"
              /\ calls'[c].result = ErrMediaLimit
              /\ users' = users)]_vars

\* an add filled the list with its key, and a later add of a further key
\* was refused with the list still those 5 keys
C4_Witness ==
    \E c1, c2 \in MediaCallers :
        /\ calls[c1].pc = "returned" /\ calls[c1].op = "add"
        /\ calls[c1].result = MediaOk
        /\ Len(calls[c1].read_keys) = MAX_USER_MEDIA_ITEMS - 1
        /\ calls[c2].pc = "returned" /\ calls[c2].op = "add"
        /\ calls[c2].user_id = calls[c1].user_id
        /\ calls[c2].result = ErrMediaLimit
        /\ calls[c2].read_keys = calls[c1].media_keys
        /\ ~Contains(calls[c2].read_keys, calls[c2].key)
        /\ StoredKeys(users, calls[c2].user_id) = calls[c1].media_keys

\* C5: when add(user, k) has succeeded and the next add(user, k) reads the
\* list the first call left, the second call succeeds as well and leaves that
\* list, with k in it exactly once.
C5_AddIdempotent ==
    \A c1, c2 \in MediaCallers :
        (/\ c1 # c2
         /\ calls[c1].pc = "returned" /\ calls[c1].op = "add"
         /\ calls[c1].result = MediaOk
         /\ calls[c2].pc = "returned" /\ calls[c2].op = "add"
         /\ calls[c2].user_id = calls[c1].user_id
         /\ calls[c2].key = calls[c1].key
         /\ calls[c2].read_keys = calls[c1].media_keys)
        => (/\ calls[c2].result = MediaOk
            /\ calls[c2].media_keys = calls[c1].media_keys
            /\ Cardinality({i \in 1..Len(calls[c2].media_keys) :
                               calls[c2].media_keys[i] = calls[c2].key}) = 1)

\* C6: remove(user, k) for a key k the user's list does not hold succeeds,
\* and the list stored by the call is the list the call found, key by key.
C6_RemoveAbsentKeyNoOp ==
    [][\A c \in MediaCallers :
          /\ (/\ ReadBy(c)
              /\ calls'[c].op = "remove"
              /\ IsSome(GetUserById(users, calls'[c].user_id))
              /\ ~Contains(StoredKeys(users, calls'[c].user_id), calls'[c].key))
             => (/\ calls'[c].pc = "writing"
                 /\ calls'[c].media_keys = StoredKeys(users, calls'[c].user_id))
          /\ (/\ WrittenBy(c)
              /\ calls[c].op = "remove"
              /\ ~Contains(calls[c].read_keys, calls[c].key))
             => (/\ calls'[c].result = MediaOk
                 /\ calls'[c].media_keys = calls[c].read_keys
                 /\ StoredKeys(users', calls[c].user_id) = calls[c].read_keys
                 /\ (StoredKeys(users, calls[c].user_id) = calls[c].read_keys
                        => \A i \in 1..Len(users) :
                              users'[i].media_keys = users[i].media_keys))]_vars

\* a remove of a key that a list of several keys did not hold has returned Ok
C6_Witness ==
    \E c \in MediaCallers :
        /\ calls[c].pc = "returned" /\ calls[c].op = "remove"
        /\ calls[c].result = MediaOk
        /\ Len(calls[c].read_keys) > 1
        /\ ~Contains(calls[c].read_keys, calls[c].key)
        /\ StoredKeys(users, calls[c].user_id) = calls[c].read_keys

\* C7: remove(user, k) for a key k the user's list holds stores that list
\* without k: one entry shorter, the keys before k where they were and the
\* keys after k moved up by one.
C7_RemovePresentKey ==
    [][\A c \in MediaCallers :
          (/\ WrittenBy(c)
           /\ calls[c].op = "remove"
           /\ Contains(calls[c].read_keys, calls[c].key))
          => LET before == calls[c].read_keys
                 after == StoredKeys(users', calls[c].user_id)
             IN  /\ calls'[c].result = MediaOk
                 /\ Len(after) = Len(before) - 1
                 /\ \A i \in 1..Len(after) : after[i] # calls[c].key
                 /\ \E p \in 1..Len(before) :
                       /\ before[p] = calls[c].key
                       /\ \A i \in 1..(p - 1) : after[i] = before[i]
                       /\ \A i \in p..Len(after) : after[i] = before[i + 1]]_vars

\* a remove of a key in the middle of a list has returned Ok
C7_Witness ==
    \E c \in MediaCallers :
        /\ calls[c].pc = "returned" /\ calls[c].op = "remove"
        /\ calls[c].result = MediaOk
        /\ \E p \in 2..(Len(calls[c].read_keys) - 1) : calls[c].read_keys[p] = calls[c].key
        /\ StoredKeys(users, calls[c].user_id) = calls[c].media_keys
        /\ Len(calls[c].media_keys) = Len(calls[c].read_keys) - 1

(***************************************************************************)
(* Properties of the dispatcher: senders, authorization, unknown commands. *)
(***************************************************************************)
\* the request carries a text message that names no sender
FromNobody(req) ==
    /\ req.method = "POST" /\ req.json_ok
    /\ IsSome(req.message)
    /\ IsSome(Unwrap(req.message).text)
    /\ ~IsSome(Unwrap(req.message).from)

\* the command a text names: its first word, in lower case
CommandOf(req) == ToLowercase(FirstToken(TrimmedTextOf(req)))

\* a row without its two interaction timestamps
Unstamped(row) == [row EXCEPT !.updated_at = 0, !.last_interaction_at = 0]

IdentificationFailures == {"Cannot identify you.", "Cannot identify sender."}

\* C12: a text message with no identifiable sender (start, other command or
\* free text) is answered with an identification-failure reply and the users
\* table is left as it was, timestamps included.
C12_NoSenderNoMutation ==
    [][(Handled /\ FromNobody(HandledReq))
          => /\ users' = users
             /\ last'.resp.kind = "sendMessage"
             /\ last'.resp.text \in IdentificationFailures]_vars

\* a free text of nobody was answered with the identification failure while
\* the table held a row
C12_Witness ==
    \E req \in Requests :
        /\ last.req = Some(req)
        /\ FromNobody(req)
        /\ ~StartsWith(Trim(Unwrap(Unwrap(req.message).text)), Slash)
        /\ last.resp.text = "Cannot identify sender."
        /\ Len(users) > 0

StartPrompts == {"Please use /start to begin.", "Please /start to begin."}

\* C13 (as claimed): a message of a sender unknown to the store whose command
\* is not start (another command, or free text) is answered with the prompt
\* to use start and leaves the table as it was; and a row is added to the
\* table only by the handling of a start command.
C13_UnknownSenderPrompted ==
    [][/\ (/\ Handled
           /\ FromSender(HandledReq)
           /\ RowsOf(users, SenderOf(HandledReq)) = {}
           /\ CommandOf(HandledReq) # CmdStart)
          => /\ users' = users
             /\ last'.resp.text \in StartPrompts
       /\ Len(users') # Len(users)
          => /\ Handled
             /\ FromSender(HandledReq)
             /\ CommandOf(HandledReq) = CmdStart]_vars

\* the roles deny the command: no Admin among them, and no User or a command
\* off the allow-list
C14_Denies(roles, command) ==
    /\ \A k \in 1..Len(roles) : roles[k] # "Admin"
    /\ \/ \A k \in 1..Len(roles) : roles[k] # "User"
       \/ command \notin {CmdStart, CmdFindMatch, CmdProfile, CmdHelp}

\* C14, on one handled request: the command the worker checks is /start for a
\* text main routes to handle_start_command and the first word otherwise
C14_DeniedIsRefused(req) ==
    \A i \in 1..Len(users) :
        (/\ IsCommandMessage(req)
         /\ users[i].telegram_id = SenderOf(req)
         /\ C14_Denies(users[i].roles,
                       IF IsStartMessage(req) THEN CmdStart ELSE CommandOf(req)))
        => /\ last'.resp.text = IF IsStartMessage(req)
                                THEN "Access denied."
                                ELSE "You don't have permission for that."
           /\ last'.handler = NoHandler
           /\ Len(users') = Len(users)
           /\ Unstamped(users'[i]) = Unstamped(users[i])

\* C14: for a resolved user, when check_permission on the user's roles denies
\* the command, the reply is the fixed permission-denied message, no command
\* handler is invoked and no profile field nor the state of the user changes.
C14_DenialGate == [][Handled => C14_DeniedIsRefused(HandledReq)]_vars

\* an Active user with the User role asked for /status and was refused
C14_Witness ==
    \E req \in Requests :
        /\ last.req = Some(req)
        /\ IsCommandMessage(req)
        /\ CommandOf(req) = CmdStatus
        /\ last.resp.text = "You don't have permission for that."
        /\ last.handler = NoHandler
        /\ \E i \in RowsOf(users, SenderOf(req)) :
              users[i].roles = <<"User">> /\ users[i].state = "Active"

KnownCommands == {CmdStart, CmdFindMatch, CmdProfile, CmdHelp, CmdStatus}

\* C15 (as claimed): for a resolved user of any role set, a message /<command>
\* whose command is none of the known commands gets the unknown-command
\* reply. (The last event is the request; rows are never deleted. The texts
\* that main hands to handle_start_command for their prefix, such as /startx,
\* are left out here: they never get that reply either.)
C15_UnknownCommandReply ==
    \A req \in Requests :
        (/\ last.req = Some(req)
         /\ IsCommandMessage(req)
         /\ ~IsStartMessage(req)
         /\ RowsOf(users, SenderOf(req)) # {}
         /\ CommandOf(req) \notin KnownCommands)
        => last.resp.text = "Unknown command: {}. Try /help."

(***************************************************************************)
(* main statement by statement.  The handling of a text message is up to   *)
(* four statements on the store, each behind an await: the handler's       *)
(* get_user_by_telegram_id, its INSERT or UPDATE, main's second            *)
(* get_user_by_telegram_id and record_user_interaction.  Invocations of    *)
(* the worker for different updates interleave between the statements.     *)
(***************************************************************************)
\* the texts of the updates handled statement by statement
StepTexts == {CmdStart, CmdHelp, CmdStatus, TxtUnknownCmd, TxtName, TxtHello, TxtBlank}

StepRequests ==
    {[method |-> "GET", json_ok |-> TRUE, message |-> None]}
    \cup {[method |-> "POST", json_ok |-> TRUE,
           message |-> Some([from |-> f, chat |-> [id |-> c], text |-> Some(x)])] :
             f \in {None} \cup {Some(TelegramUser(t)) : t \in TelegramIds},
             c \in ChatIds, x \in StepTexts}

\* an update from sender t in chat 501 with text x
TextUpdate(t, x) ==
    [method |-> "POST", json_ok |-> TRUE,
     message |-> Some([from |-> Some(TelegramUser(t)), chat |-> [id |-> 501],
                       text |-> Some(x)])]

\* tables main has produced before the updates in flight arrive: the empty
\* table, sender 11 created by /start, and sender 11 named
TableStarted == Main(<<>>, TextUpdate(11, CmdStart), 0).tbl

TableNamed == Main(TableStarted, TextUpdate(11, TxtName), 0).tbl

\* the same with the row granted Admin, and with the row blocked
TableAdmin == [TableNamed EXCEPT ![1].roles = <<"Admin">>]

TableBlocked == [TableNamed EXCEPT ![1].state = "Blocked"]

StepTables == {<<>>, TableStarted, TableNamed, TableAdmin, TableBlocked}

\* an update whose handling has begun: the handler's lookup is done
Flight(pc, req, found, resp, handler, user_id, recorded) ==
    [pc |-> pc, req |-> req, found |-> found, resp |-> resp, handler |-> handler,
     user_id |-> user_id, recorded |-> recorded]

\* a plausible slip: the id taken from the handler's lookup, without the
\* second get_user_by_telegram_id
UserIdFromFirstLookup(tbl, flight) ==
    IF IsSome(flight.found) THEN Some(Unwrap(flight.found).id) ELSE None

\* main: user_internal_id_for_interaction_update, from the second
\* get_user_by_telegram_id
UserIdForInteractionUpdate(tbl, flight) ==
    LET got == GetUserByTelegramId(tbl, SenderOf(flight.req))
    IN  IF IsSome(got) THEN Some(Unwrap(got).id) ELSE None

InitStep ==
    /\ users \in StepTables
    /\ now = 0
    /\ last = NoEvent
    /\ calls = [c \in MediaCallers |-> NoCall]
    /\ perm = NoCall
    /\ flights = [w \in Workers |-> NoCall]
    /\ sessions = [c \in ChatIds |-> None]

\* main up to the end of the handler's get_user_by_telegram_id; a request
\* that is answered without any statement on the store is done at once
StepLookup(w, req) ==
    /\ flights[w].pc = "idle"
    /\ flights' = [flights EXCEPT ![w] =
          IF FromSender(req)
          THEN Flight("resolved", req, GetUserByTelegramId(users, SenderOf(req)),
                      None, NoHandler, None, FALSE)
          ELSE LET out == Main(users, req, now)
               IN  Flight("done", req, None, Some(out.resp), out.handler, None, FALSE)]
    /\ UNCHANGED <<users, now, last, calls, perm, sessions>>

\* the handler from its lookup to its response, with the INSERT or UPDATE it
\* makes on the table as it is now
StepHandle(w) ==
    /\ flights[w].pc = "resolved"
    /\ LET req == flights[w].req
           message == Unwrap(req.message)
           text_trimmed == TrimmedTextOf(req)
       IN  \E out \in {IF StartsWith(text_trimmed, CmdStart)
                       THEN StartResolved(users, flights[w].found, Unwrap(message.from),
                                          message.chat.id, now)
                       ELSE IF StartsWith(text_trimmed, Slash)
                       THEN DispatchResolved(users, flights[w].found, message.chat.id,
                                             ToLowercase(FirstToken(text_trimmed)))
                       ELSE OnboardingResolved(users, flights[w].found, message.chat.id,
                                               text_trimmed, now)} :
              /\ users' = out.tbl
              /\ flights' = [flights EXCEPT ![w].pc = "answered",
                                            ![w].resp = Some(out.resp),
                                            ![w].handler = out.handler]
    /\ UNCHANGED <<now, last, calls, perm, sessions>>

\* main's second get_user_by_telegram_id, for the id to record
StepRefetch(w) ==
    /\ flights[w].pc = "answered"
    /\ \E id \in {UserIdForInteractionUpdate(users, flights[w])} :
          flights' = [flights EXCEPT ![w].pc = IF IsSome(id) THEN "refetched" ELSE "done",
                                        ![w].user_id = id]
    /\ UNCHANGED <<users, now, last, calls, perm, sessions>>

\* record_user_interaction, and the response returned
StepRecord(w) ==
    /\ flights[w].pc = "refetched"
    /\ users' = RecordUserInteraction(users, Unwrap(flights[w].user_id), now)
    /\ flights' = [flights EXCEPT ![w].pc = "done", ![w].recorded = TRUE]
    /\ UNCHANGED <<now, last, calls, perm, sessions>>

\* time passes between two statements
StepTick ==
    /\ now < MaxClock
    /\ now' = now + 1
    /\ UNCHANGED <<users, last, calls, perm, flights, sessions>>

\* an administrator blocks a user while updates are being handled
StepAdminBlock(telegram_id) ==
    /\ \E i \in 1..Len(users) :
          /\ users[i].telegram_id = telegram_id
          /\ users[i].state # "Blocked"
          /\ users' = [users EXCEPT ![i].state = "Blocked"]
    /\ UNCHANGED <<now, last, calls, perm, flights, sessions>>

NextStep ==
    \/ \E w \in Workers, req \in StepRequests : StepLookup(w, req)
    \/ \E t \in TelegramIds : StepAdminBlock(t)
    \/ \E w \in Workers : StepHandle(w)
    \/ \E w \in Workers : StepRefetch(w)
    \/ \E w \in Workers : StepRecord(w)
    \/ StepTick

StepSpec == InitStep /\ [][NextStep]_vars

(***************************************************************************)
(* Properties of main statement by statement.                              *)
(***************************************************************************)
\* worker w's handler makes its statement in this step
HandledBy(w) == flights[w].pc = "resolved" /\ flights'[w].pc = "answered"

\* the handler of w goes on to create_user_from_telegram_user: a start
\* message whose lookup found no row
CreatesUser(w) ==
    /\ StartsWith(TrimmedTextOf(flights[w].req), CmdStart)
    /\ ~IsSome(flights[w].found)

\* no two rows of the table have the same external id
UniqueExternalIds(tbl) ==
    \A i, j \in 1..Len(tbl) : tbl[i].telegram_id = tbl[j].telegram_id => i = j

\* C11: after any interleaving of start messages, two of the same unknown
\* external id handled at the same time included, the table holds at most one
\* row per external id; a create for an external id that already owns a row
\* fails and leaves the table as it was.
C11_OneRowPerExternalId ==
    [][/\ UniqueExternalIds(users')
       /\ \A w \in Workers :
             (/\ HandledBy(w)
              /\ CreatesUser(w)
              /\ RowsOf(users, SenderOf(flights[w].req)) # {})
             => /\ users' = users
                /\ flights'[w].resp = Some(SendMessage(501, "Account creation failed.", None))
       /\ \A w \in Workers :
             (/\ HandledBy(w)
              /\ CreatesUser(w)
              /\ RowsOf(users, SenderOf(flights[w].req)) = {})
             => Len(users') = Len(users) + 1]_vars

\* two start messages of one unknown external id were handled at the same
\* time: both looked up no row, one created it and the other's create failed
C11_Witness ==
    \E w1, w2 \in Workers :
        /\ w1 # w2
        /\ flights[w1].pc = "done" /\ flights[w2].pc = "done"
        /\ FromSender(flights[w1].req) /\ FromSender(flights[w2].req)
        /\ SenderOf(flights[w1].req) = SenderOf(flights[w2].req)
        /\ TrimmedTextOf(flights[w1].req) = CmdStart
        /\ TrimmedTextOf(flights[w2].req) = CmdStart
        /\ ~IsSome(flights[w1].found) /\ ~IsSome(flights[w2].found)
        /\ Unwrap(flights[w1].resp).text = "Welcome! What's your name?"
        /\ Unwrap(flights[w2].resp).text = "Account creation failed."
        /\ Cardinality(RowsOf(users, SenderOf(flights[w1].req))) = 1

\* the handling has called record_user_interaction
HasRecorded(flight) == flight.pc # "idle" /\ flight.recorded

\* C20, main's second lookup: when the response of a text message with a
\* sender is there and the sender owns a row, that row's id is taken for
\* record_user_interaction, whatever the response; with no row, none is.
C20_Refetched(w) ==
    (flights[w].pc = "answered" /\ flights'[w] # flights[w])
    => LET rows == RowsOf(users, SenderOf(flights[w].req))
       IN  /\ IsSome(flights[w].resp)
           /\ flights'[w].resp = flights[w].resp
           /\ users' = users
           /\ rows # {} => /\ flights'[w].pc = "refetched"
                           /\ \E i \in rows : flights'[w].user_id = Some(users[i].id)
           /\ rows = {} => flights'[w].pc = "done" /\ ~flights'[w].recorded

\* C20, record_user_interaction: it is called with the response computed,
\* stamps the row of the id taken and leaves the response
C20_Recorded(w) ==
    (HasRecorded(flights'[w]) /\ ~HasRecorded(flights[w]))
    => /\ flights[w].pc = "refetched"
       /\ IsSome(flights[w].resp)
       /\ flights'[w].resp = flights[w].resp
       /\ Len(users') = Len(users)
       /\ \A i \in 1..Len(users) :
             IF Some(users[i].id) = flights[w].user_id
             THEN /\ users'[i].last_interaction_at = now
                  /\ users'[i].updated_at = now
                  /\ Unstamped(users'[i]) = Unstamped(users[i])
             ELSE users'[i] = users[i]

\* C20: after the response of a text message is produced,
\* record_user_interaction is called for the sender's user whenever that
\* user is in the store, whether the command was served, denied or unknown;
\* it is never called before the response is computed, and a worker that has
\* taken an id does call it.
C20_InteractionRecordedAfterResponse ==
    [][\A w \in Workers :
          /\ C20_Refetched(w)
          /\ C20_Recorded(w)
          /\ (flights[w].pc = "refetched" /\ flights'[w] # flights[w])
                => flights'[w].recorded]_vars

\* a denied command of a user was recorded after its response
C20_Witness ==
    \E w \in Workers :
        /\ flights[w].pc = "done"
        /\ flights[w].recorded
        /\ CommandOf(flights[w].req) = CmdStatus
        /\ Unwrap(flights[w].resp).text = "You don't have permission for that."
        /\ \E i \in RowsOf(users, SenderOf(flights[w].req)) :
              /\ flights[w].user_id = Some(users[i].id)
              /\ users[i].last_interaction_at = now

(***************************************************************************)
(* The profile editing session: the SESSIONS_KV entry of a chat, the flows *)
(* that create it and the step input that completes it.  The worker's code *)
(* for it is exercised by tests/integration_tests.rs but is not part of    *)
(* the sources at hand; it is written here from the specification          *)
(* (sections 3, 4.4, 4.5 and 5) and from what those tests send and expect. *)
(***************************************************************************)
RECURSIVE Tokens(_)
\* text.split_whitespace()
Tokens(s) ==
    LET t == Trim(s)
    IN  IF t = <<>> THEN <<>>
        ELSE <<FirstToken(t)>> \o Tokens(SubSeq(t, Len(FirstToken(t)) + 1, Len(t)))

ArgDeleteMedia == <<"d", "e", "l", "e", "t", "e", "_", "m", "e", "d", "i", "a">>

ArgEdit == <<"e", "d", "i", "t">>

ArgBio == <<"b", "i", "o">>

\* "/profile delete_media", the delete-initiation command of the tests
TxtDeleteMedia == CmdProfile \o <<" ">> \o ArgDeleteMedia

\* "/profile edit bio"
TxtEditBio == CmdProfile \o <<" ">> \o ArgEdit \o <<" ">> \o ArgBio

TxtTwo == <<"2">>

TxtFive == <<"5">>

DigitChars == <<"0", "1", "2", "3", "4", "5", "6", "7", "8", "9">>

DigitValue(c) == (CHOOSE i \in 1..Len(DigitChars) : DigitChars[i] = c) - 1

RECURSIVE ParseDigits(_, _)
ParseDigits(s, acc) ==
    IF s = <<>> THEN acc ELSE ParseDigits(Tail(s), acc * Len(DigitChars) + DigitValue(Head(s)))

\* the number a reply names, if it is one: str::parse on the trimmed text
ParseChoice(text) ==
    LET t == Trim(text)
    IN  IF t # <<>> /\ \A i \in 1..Len(t) : Contains(DigitChars, t[i])
        THEN Some(ParseDigits(t, 0))
        ELSE None

\* CurrentEditingStep::AwaitingMediaDeletionChoice(keys): the keys listed in
\* the prompt, in the order of their numbers
AwaitingMediaDeletionChoice(keys) ==
    [tag |-> "AwaitingMediaDeletionChoice", keys |-> keys, field |-> ""]

\* the step that awaits the free-text value of an EditingField
AwaitingFieldValue(field) ==
    [tag |-> "AwaitingFieldValue", keys |-> <<>>, field |-> field]

\* ProfileEditingSession
ProfileEditingSession(step) == [step |-> step]

\* EditingSessionStore.get: an expired entry is an absent one
SessionGet(kv, chat_id) == kv[chat_id]

\* a plausible slip: put that keeps an entry the chat already has
SessionPutIfAbsent(kv, chat_id, session) ==
    IF IsSome(kv[chat_id]) THEN kv ELSE [kv EXCEPT ![chat_id] = Some(session)]

\* EditingSessionStore.put: overwrites whatever the chat had
SessionPut(kv, chat_id, session) == [kv EXCEPT ![chat_id] = Some(session)]

\* a plausible slip: delete that leaves the entry in the store
SessionDeleteKeepsEntry(kv, chat_id) == kv

\* EditingSessionStore.delete
SessionDelete(kv, chat_id) == [kv EXCEPT ![chat_id] = None]

\* UserService::update_user_bio: UPDATE users SET bio=?1, ... WHERE id=?3 RETURNING
UpdateUserBio(tbl, user_id, bio, clock) ==
    LET tbl2 == [i \in 1..Len(tbl) |->
                    IF tbl[i].id = user_id
                    THEN [tbl[i] EXCEPT !.bio = Some(bio),
                                        !.updated_at = clock, !.last_interaction_at = clock]
                    ELSE tbl[i]]
        got == GetUserById(tbl2, user_id)
    IN  [ok |-> IsSome(got), tbl |-> tbl2, user |-> got]

\* a plausible slip: a number above N taken for the last key of the list
SelectedKeyClamped(choice, keys) ==
    IF IsSome(choice) /\ Unwrap(choice) >= 1 /\ keys # <<>>
    THEN Some(keys[IF Unwrap(choice) <= Len(keys) THEN Unwrap(choice) ELSE Len(keys)])
    ELSE None

\* a plausible slip: the number taken for an index from 0
SelectedKeyZeroBased(choice, keys) ==
    IF IsSome(choice) /\ Unwrap(choice) + 1 <= Len(keys)
    THEN Some(keys[Unwrap(choice) + 1])
    ELSE None

\* the key listed under the number of the reply, for a number from 1 to N
SelectedKey(choice, keys) ==
    IF IsSome(choice) /\ Unwrap(choice) >= 1 /\ Unwrap(choice) <= Len(keys)
    THEN Some(keys[Unwrap(choice)])
    ELSE None

\* a plausible slip: the session looked up only for texts that are no command
IsStepInputFreeTextOnly(session, text_trimmed) ==
    IsSome(session) /\ ~StartsWith(text_trimmed, Slash)

\* the dispatcher's classification, item 3: with a session for the
\* conversation, the message is step input, whatever its text
IsStepInput(session, text_trimmed) == IsSome(session)

\* the flow a /profile command initiates, if any, from its arguments
InitiatedFlow(text_trimmed) ==
    LET tokens == Tokens(text_trimmed)
    IN  IF Len(tokens) < 2 \/ ToLowercase(tokens[1]) # CmdProfile THEN "none"
        ELSE IF tokens[2] = ArgDeleteMedia THEN "delete_media"
        ELSE IF Len(tokens) >= 3 /\ tokens[2] = ArgEdit /\ tokens[3] = ArgBio THEN "edit_bio"
        ELSE "none"

(***************************************************************************)
(* The dispatcher with editing sessions, statement by statement: each      *)
(* worker handles one message of sender 11 in chat 501.  The statements on *)
(* the users table are those of user_service; the statements on the        *)
(* session store and the order of the handler's steps are the              *)
(* specification's.                                                        *)
(***************************************************************************)
\* the messages in flight, numbered in the order main received them
SessionWorkers == {1, 2, 3}

SessionTexts == {TxtDeleteMedia, TxtEditBio, TxtTwo, TxtFive, TxtHello}

SessionRequests == {TextUpdate(11, x) : x \in SessionTexts}

\* sender 11, Active with a name, holding the media keys given
TableWithMedia(media_keys) == [TableNamed EXCEPT ![1].media_keys = media_keys]

\* sender 11 in Onboarding without a name, holding two media keys
TableOnboardingWithMedia == [TableStarted EXCEPT ![1].media_keys = <<"k1", "k2">>]

SessionTables ==
    {TableWithMedia(<<>>), TableWithMedia(<<"k1", "k2", "k3">>), TableOnboardingWithMedia}

\* a message being handled: the row and the session its handler has read,
\* the key chosen and the list to write, the session to put and what the
\* chat had when it was put, the session whose step it has applied, and its
\* response
SessionFlight(pc, req, found) ==
    [pc |-> pc, req |-> req, found |-> found, session |-> None,
     key |-> "", write |-> <<>>, stamp |-> 0, put |-> None, replaced |-> None,
     applied |-> None,
     resp |-> None, handler |-> NoHandler, user_id |-> None, recorded |-> FALSE]

Answered(flight, resp, handler) ==
    [flight EXCEPT !.pc = "answered", !.resp = Some(resp), !.handler = handler]

\* the step handler of AwaitingMediaDeletionChoice up to the read of
\* remove_media_key_from_user (get_user_by_id and retain)
MediaDeletionChoice(tbl, flight, chat_id, text_trimmed, clock) ==
    LET keys == Unwrap(flight.session).step.keys
        selected == SelectedKey(ParseChoice(text_trimmed), keys)
        current == GetUserById(tbl, Unwrap(flight.found).id)
    IN  IF ~IsSome(selected)
        THEN Answered(flight,
                      SendMessage(chat_id, "Invalid selection. Please enter the number", None),
                      "step_input")
        ELSE IF ~IsSome(current)
        THEN Answered(flight, SendMessage(chat_id, "Sorry, something went wrong.", None),
                      "step_input")
        ELSE [flight EXCEPT !.pc = "writing", !.handler = "step_input",
                            !.key = Unwrap(selected),
                            !.write = RetainKeys(Unwrap(current).media_keys, Unwrap(selected)),
                            !.stamp = clock]

\* a plausible slip: the test for an empty media list left out
InitiateFlowAnyList(flight, chat_id, text_trimmed) ==
    LET user == Unwrap(flight.found)
    IN  IF InitiatedFlow(text_trimmed) = "edit_bio"
        THEN [flight EXCEPT !.pc = "putting", !.handler = "handle_profile_command",
                 !.put = Some(ProfileEditingSession(AwaitingFieldValue("bio")))]
        ELSE [flight EXCEPT !.pc = "putting", !.handler = "handle_profile_command",
                 !.put = Some(ProfileEditingSession(
                                 AwaitingMediaDeletionChoice(user.media_keys)))]

\* the handler of a /profile command that initiates a flow, up to the put
InitiateFlow(flight, chat_id, text_trimmed) ==
    LET user == Unwrap(flight.found)
    IN  IF InitiatedFlow(text_trimmed) = "edit_bio"
        THEN [flight EXCEPT !.pc = "putting", !.handler = "handle_profile_command",
                 !.put = Some(ProfileEditingSession(AwaitingFieldValue("bio")))]
        ELSE IF user.media_keys = <<>>
        THEN Answered(flight,
                      SendMessage(chat_id, "You don't have any media items to delete.", None),
                      "handle_profile_command")
        ELSE [flight EXCEPT !.pc = "putting", !.handler = "handle_profile_command",
                 !.put = Some(ProfileEditingSession(
                                 AwaitingMediaDeletionChoice(user.media_keys)))]

\* the message routed by its text, as main routes it
RoutedByText(tbl, flight, clock) ==
    LET message == Unwrap(flight.req.message)
        text_trimmed == TrimmedTextOf(flight.req)
    IN  IF StartsWith(text_trimmed, CmdStart)
        THEN StartResolved(tbl, flight.found, Unwrap(message.from), message.chat.id, clock)
        ELSE IF StartsWith(text_trimmed, Slash)
        THEN DispatchResolved(tbl, flight.found, message.chat.id,
                              ToLowercase(FirstToken(text_trimmed)))
        ELSE OnboardingResolved(tbl, flight.found, message.chat.id, text_trimmed, clock)

\* the handler from the session it read to its first statement on a store
\* or to its response: the table and the message's handling afterwards
HandleClassified(tbl, flight, clock) ==
    LET chat_id == Unwrap(flight.req.message).chat.id
        text_trimmed == TrimmedTextOf(flight.req)
        routed == RoutedByText(tbl, flight, clock)
    IN  IF IsSome(flight.found) /\ IsStepInput(flight.session, text_trimmed)
        THEN IF Unwrap(flight.session).step.tag = "AwaitingMediaDeletionChoice"
             THEN [tbl |-> tbl,
                   flight |-> MediaDeletionChoice(tbl, flight, chat_id, text_trimmed, clock)]
             ELSE LET upd == UpdateUserBio(tbl, Unwrap(flight.found).id, text_trimmed, clock)
                  IN  IF upd.ok
                      THEN [tbl |-> upd.tbl,
                            flight |-> [flight EXCEPT !.pc = "completing",
                                                      !.handler = "step_input",
                                                      !.applied = flight.session]]
                      ELSE [tbl |-> tbl,
                            flight |-> Answered(flight,
                                          SendMessage(chat_id, "Sorry, something went wrong.",
                                                      None),
                                          "step_input")]
        ELSE IF /\ IsSome(flight.found)
                /\ InitiatedFlow(text_trimmed) # "none"
                /\ routed.handler = "handle_profile_command"
        THEN [tbl |-> tbl, flight |-> InitiateFlow(flight, chat_id, text_trimmed)]
        ELSE [tbl |-> routed.tbl, flight |-> Answered(flight, routed.resp, routed.handler)]

InitSession ==
    /\ users \in SessionTables
    /\ now = 0
    /\ last = NoEvent
    /\ calls = [c \in MediaCallers |-> NoCall]
    /\ perm = NoCall
    /\ flights = [w \in SessionWorkers |-> NoCall]
    /\ sessions = [c \in ChatIds |-> None]

\* main up to the end of the handler's get_user_by_telegram_id
SessionLookup(w, req) ==
    /\ flights[w].pc = "idle"
    /\ \A v \in SessionWorkers : v < w => flights[v].pc # "idle"
    /\ flights' = [flights EXCEPT ![w] =
          SessionFlight("resolved", req, GetUserByTelegramId(users, SenderOf(req)))]
    /\ UNCHANGED <<users, now, last, calls, perm, sessions>>

\* EditingSessionStore.get for the chat of the message
SessionRead(w) ==
    /\ flights[w].pc = "resolved"
    /\ flights' = [flights EXCEPT ![w].pc = "classified",
                                  ![w].session =
                                     SessionGet(sessions, Unwrap(flights[w].req.message).chat.id)]
    /\ UNCHANGED <<users, now, last, calls, perm, sessions>>

\* the handler chosen by the classification, up to its first statement
SessionHandle(w) ==
    /\ flights[w].pc = "classified"
    /\ \E out \in {HandleClassified(users, flights[w], now)} :
          /\ users' = out.tbl
          /\ flights' = [flights EXCEPT ![w] = out.flight]
    /\ UNCHANGED <<now, last, calls, perm, sessions>>

\* the UPDATE of remove_media_key_from_user
SessionWrite(w) ==
    /\ flights[w].pc = "writing"
    /\ \E upd \in {UpdateUserMediaKeys(users, Unwrap(flights[w].found).id,
                                       flights[w].write, flights[w].stamp)} :
          /\ users' = upd.tbl
          /\ flights' = [flights EXCEPT ![w].pc = IF upd.ok THEN "completing" ELSE "answered",
                                        ![w].applied = IF upd.ok THEN flights[w].session ELSE None,
                                        ![w].resp = IF upd.ok THEN None
                                                    ELSE Some(SendMessage(
                                                            Unwrap(flights[w].req.message).chat.id,
                                                            "Sorry, something went wrong.", None))]
    /\ UNCHANGED <<now, last, calls, perm, sessions>>

\* the flow completed: EditingSessionStore.delete, then the confirmation
SessionComplete(w) ==
    /\ flights[w].pc = "completing"
    /\ LET chat_id == Unwrap(flights[w].req.message).chat.id
       IN  /\ sessions' = SessionDelete(sessions, chat_id)
           /\ flights' = [flights EXCEPT ![w] =
                 Answered(flights[w],
                          IF Unwrap(flights[w].applied).step.tag = "AwaitingMediaDeletionChoice"
                          THEN SendMessage(chat_id, "Successfully deleted media item {}",
                                           Some(flights[w].key))
                          ELSE SendMessage(chat_id, "Your bio has been updated.", None),
                          "step_input")]
    /\ UNCHANGED <<users, now, last, calls, perm>>

\* the flow initiated: EditingSessionStore.put, then the prompt
SessionStore(w) ==
    /\ flights[w].pc = "putting"
    /\ LET chat_id == Unwrap(flights[w].req.message).chat.id
           session == Unwrap(flights[w].put)
       IN  /\ sessions' = SessionPut(sessions, chat_id, session)
           /\ flights' = [flights EXCEPT ![w] =
                 Answered([flights[w] EXCEPT !.replaced = sessions[chat_id]],
                          IF session.step.tag = "AwaitingMediaDeletionChoice"
                          THEN SendMessage(chat_id, "Which media item would you like to delete?",
                                           Some(session.step.keys))
                          ELSE SendMessage(chat_id, "Please send your new bio.", None),
                          "handle_profile_command")]
    /\ UNCHANGED <<users, now, last, calls, perm>>

\* the store drops an entry whose TTL has run out
SessionExpire(c) ==
    /\ IsSome(sessions[c])
    /\ sessions' = [sessions EXCEPT ![c] = None]
    /\ UNCHANGED <<users, now, last, calls, perm, flights>>

\* the handler dies after its step was applied to the row and before
\* EditingSessionStore.delete: no reply, no interaction recorded; earlier
\* holds the handlers that had read the session store by then
SessionCrash(w) ==
    /\ flights[w].pc = "completing"
    /\ flights' = [flights EXCEPT ![w] =
          [flights[w] EXCEPT !.pc = "crashed"]
             @@ ("earlier" :> {v \in SessionWorkers :
                                 flights[v].pc \notin {"idle", "resolved"}})]
    /\ UNCHANGED <<users, now, last, calls, perm, sessions>>

NextSession ==
    \/ \E w \in SessionWorkers, req \in SessionRequests : SessionLookup(w, req)
    \/ \E w \in SessionWorkers : SessionCrash(w)
    \/ \E w \in SessionWorkers : SessionRead(w)
    \/ \E w \in SessionWorkers : SessionHandle(w)
    \/ \E w \in SessionWorkers : SessionWrite(w)
    \/ \E w \in SessionWorkers : SessionComplete(w)
    \/ \E w \in SessionWorkers : SessionStore(w)
    \/ \E w \in SessionWorkers : StepRefetch(w)
    \/ \E w \in SessionWorkers : StepRecord(w)
    \/ \E c \in ChatIds : SessionExpire(c)

SessionSpec == InitSession /\ [][NextSession]_vars

(***************************************************************************)
(* Properties of the dispatcher with editing sessions.                     *)
(***************************************************************************)
\* worker w's handler takes its step from the session it read
Classifies(w) == flights[w].pc = "classified" /\ flights'[w].pc # "classified"

NameAndStateOf(tbl, telegram_id) ==
    {<<tbl[i].name, tbl[i].state>> : i \in RowsOf(tbl, telegram_id)}

\* with a session read for the chat, the message of a known user is step
\* input: no command handler and no onboarding name entry acts on it
C16_WithSession(w) ==
    /\ flights'[w].handler = "step_input"
    /\ flights'[w].pc # "putting"
    /\ NameAndStateOf(users', SenderOf(flights[w].req))
          = NameAndStateOf(users, SenderOf(flights[w].req))

\* without a session, the message is handled as main routes it by its
\* text, or by the /profile handler that initiates a flow
C16_WithoutSession(w) ==
    /\ flights'[w].handler # "step_input"
    /\ \/ /\ flights'[w].handler = "handle_profile_command"
          /\ ToLowercase(FirstToken(TrimmedTextOf(flights[w].req))) = CmdProfile
       \/ /\ flights'[w].resp = Some(RoutedByText(users, flights[w], now).resp)
          /\ users' = RoutedByText(users, flights[w], now).tbl

ChatOf(flight) == Unwrap(flight.req.message).chat.id

MediaOf(tbl, flight) == Unwrap(GetUserById(tbl, Unwrap(flight.found).id)).media_keys

\* a list without its n-th element, the others in their order
WithoutNth(keys, n) ==
    [i \in 1..(Len(keys) - 1) |-> IF i < n THEN keys[i] ELSE keys[i + 1]]

Distinct(keys) == \A i, j \in 1..Len(keys) : keys[i] = keys[j] => i = j

\* the put of the delete initiation stores the list of the row it read
C17_Snapshot(w) ==
    (/\ flights[w].pc = "putting"
     /\ flights'[w].pc = "answered"
     /\ InitiatedFlow(TrimmedTextOf(flights[w].req)) = "delete_media")
    => sessions'[ChatOf(flights[w])] =
          Some(ProfileEditingSession(
                  AwaitingMediaDeletionChoice(Unwrap(flights[w].found).media_keys)))

\* the reply "2" to a session whose snapshot is the list of the row, of
\* three distinct keys: the list to write is the snapshot without its second
C17_Chooses(w) ==
    (/\ Classifies(w)
     /\ IsSome(flights[w].found)
     /\ IsSome(flights[w].session)
     /\ TrimmedTextOf(flights[w].req) = TxtTwo
     /\ Unwrap(flights[w].session).step.tag = "AwaitingMediaDeletionChoice"
     /\ Unwrap(flights[w].session).step.keys = MediaOf(users, flights[w])
     /\ Len(MediaOf(users, flights[w])) = 3
     /\ Distinct(MediaOf(users, flights[w])))
    => /\ flights'[w].pc = "writing"
       /\ flights'[w].key = MediaOf(users, flights[w])[2]
       /\ flights'[w].write = WithoutNth(MediaOf(users, flights[w]), 2)

\* the UPDATE stores that list in the row, and then the session is deleted
\* by the handler's next statement, unless the handler dies before it
C17_Completes(w) ==
    /\ (flights[w].pc = "writing" /\ flights'[w].pc # "writing")
       => /\ flights'[w].pc = "completing"
          /\ MediaOf(users', flights[w]) = flights[w].write
    /\ (flights[w].pc = "completing" /\ flights'[w].pc \notin {"completing", "crashed"})
       => sessions'[ChatOf(flights[w])] = None

OutOfRangeReply(flight) ==
    /\ flight.pc \in {"classified", "answered", "refetched"}
    /\ IsSome(flight.found)
    /\ IsSome(flight.session)
    /\ Unwrap(flight.session).step.tag = "AwaitingMediaDeletionChoice"
    /\ IsSome(ParseChoice(TrimmedTextOf(flight.req)))
    /\ Unwrap(ParseChoice(TrimmedTextOf(flight.req)))
          \notin 1..Len(Unwrap(flight.session).step.keys)

Applies(w) ==
    /\ flights[w].pc \in {"classified", "writing"}
    /\ flights'[w].pc \in {"classified", "writing", "completing"}
    /\ ~IsSome(flights[w].applied)
    /\ IsSome(flights'[w].applied)

\* worker v has put a session in place of another one, old
HasReplaced(v, old) ==
    /\ flights[v].pc \in {"answered", "refetched", "done"}
    /\ IsSome(flights[v].put)
    /\ flights[v].replaced = Some(old)
    /\ flights[v].put # Some(old)

\* the put of an initiation stores its session, whatever the chat had
C19_PutReplaces(w) ==
    (flights[w].pc = "putting" /\ flights'[w].pc # "putting")
    => sessions'[ChatOf(flights[w])] = flights[w].put

\* the step of a session that was replaced is not applied
C19_ReplacedNotApplied(w) ==
    Applies(w) => \A v \in SessionWorkers : ~HasReplaced(v, Unwrap(flights'[w].applied))

C19_ReadsCurrent(w) ==
    /\ (flights[w].pc = "resolved" /\ flights'[w].pc # "resolved")
       => flights'[w].session = sessions[ChatOf(flights[w])]
    /\ Applies(w) => flights'[w].applied = flights[w].session

StoreFailures == {"none", "service", "lookup", "create", "update", "refetch", "record"}

\* env.var("SESSION_TIMEOUT_MINUTES") parsed as u32, in the minutes of the clock
SessionTimeouts == {0, 1}

\* Err(e): the error of the store returned as the result of the request
PropagatedError ==
    [kind |-> "err", chat_id |-> None, text |-> "D1_ERROR", arg |-> None]

\* a plausible slip: the Onboarding test of the timeout check left out
SessionTimedOutAnyState(user, clock, session_timeout_minutes) ==
    clock - user.last_interaction_at > session_timeout_minutes

\* the session timeout check of dispatch_command and handle_start_command,
\* which logs
SessionTimedOut(user, clock, session_timeout_minutes) ==
    /\ clock - user.last_interaction_at > session_timeout_minutes
    /\ user.state # "Onboarding"

\* a plausible slip: the check made on the row as the request leaves it
TimeoutLoggedAfter(before, after, found, clock, session_timeout_minutes) ==
    /\ IsSome(found)
    /\ IsSome(GetUserById(after, Unwrap(found).id))
    /\ SessionTimedOut(Unwrap(GetUserById(after, Unwrap(found).id)), clock,
                       session_timeout_minutes)

\* whether the handler logs a timed out session: on the user it has just
\* fetched, before any statement that writes
TimeoutLogged(before, after, found, clock, session_timeout_minutes) ==
    /\ IsSome(found)
    /\ SessionTimedOut(Unwrap(found), clock, session_timeout_minutes)

\* handle_start_command reaches update_user_state_and_name for this user
StartActivates(domain_user) ==
    /\ CheckPermission(domain_user.roles, CmdStart)
    /\ domain_user.state # "Blocked"
    /\ ~IsProfileComplete(domain_user)
    /\ IsSome(domain_user.name)

\* handle_start_command with the store call `fail` returning an error
StartWithStore(tbl, telegram_user_opt, chat_id, clock, fail) ==
    LET found == GetUserByTelegramId(tbl, Unwrap(telegram_user_opt).id)
    IN  IF ~IsSome(telegram_user_opt)
        THEN HandleStartCommand(tbl, telegram_user_opt, chat_id, clock)
        ELSE IF fail = "lookup"
        THEN Outcome(tbl, SendMessage(chat_id, "Error fetching account.", None), NoHandler)
        ELSE IF IsSome(found) /\ StartActivates(Unwrap(found)) /\ fail = "update"
        THEN Outcome(tbl, SendMessage(chat_id, "Error activating profile.", None), NoHandler)
        ELSE IF ~IsSome(found) /\ fail = "create"
        THEN Outcome(tbl, SendMessage(chat_id, "Account creation failed.", None), NoHandler)
        ELSE StartResolved(tbl, found, Unwrap(telegram_user_opt), chat_id, clock)

\* a plausible slip: the error of the lookup answered like a missing user
DispatchWithStoreNotFound(tbl, telegram_user_opt, chat_id, text, clock, fail) ==
    IF IsSome(telegram_user_opt) /\ fail = "lookup"
    THEN Outcome(tbl, SendMessage(chat_id, "Please use /start to begin.", None), NoHandler)
    ELSE DispatchCommand(tbl, telegram_user_opt, chat_id, text, clock)

\* dispatch_command with the store call `fail` returning an error: the `?`
\* on get_user_by_telegram_id returns it
DispatchWithStore(tbl, telegram_user_opt, chat_id, text, clock, fail) ==
    IF IsSome(telegram_user_opt) /\ fail = "lookup"
    THEN Outcome(tbl, PropagatedError, NoHandler)
    ELSE DispatchCommand(tbl, telegram_user_opt, chat_id, text, clock)

\* handle_onboarding_message with the store call `fail` returning an error:
\* the `?` on get_user_by_telegram_id returns it
OnboardingWithStore(tbl, telegram_user_opt, chat_id, text, clock, fail) ==
    LET found == GetUserByTelegramId(tbl, Unwrap(telegram_user_opt).id)
    IN  IF ~IsSome(telegram_user_opt)
        THEN HandleOnboardingMessage(tbl, telegram_user_opt, chat_id, text, clock)
        ELSE IF fail = "lookup"
        THEN Outcome(tbl, PropagatedError, NoHandler)
        ELSE IF /\ IsSome(found) /\ AwaitingName(Unwrap(found))
                /\ ~NameRejected(Trim(text)) /\ fail = "update"
        THEN Outcome(tbl, SendMessage(chat_id, "Error saving name.", None), NoHandler)
        ELSE OnboardingResolved(tbl, found, chat_id, text, clock)

\* main, the routing of a text message, with the store call `fail` failing
RouteTextWithStore(tbl, telegram_user_opt, chat_id, text, clock, fail) ==
    LET text_trimmed == Trim(text)
    IN  IF StartsWith(text_trimmed, CmdStart)
        THEN StartWithStore(tbl, telegram_user_opt, chat_id, clock, fail)
        ELSE IF StartsWith(text_trimmed, Slash)
        THEN DispatchWithStore(tbl, telegram_user_opt, chat_id, text_trimmed, clock, fail)
        ELSE OnboardingWithStore(tbl, telegram_user_opt, chat_id, text_trimmed, clock, fail)

\* a plausible slip: the error of record_user_interaction returned with `?`
ResponseAfterRecordPropagated(final_response, recorded_ok) ==
    IF recorded_ok THEN final_response ELSE PropagatedError

\* main: the result after record_user_interaction, whose error is logged
ResponseAfterRecord(final_response, recorded_ok) == final_response

\* main, after the handler of a text message: `if let Ok(Some(user))` on the
\* second get_user_by_telegram_id, then record_user_interaction
RecordInteractionWithStore(out, telegram_user_opt, clock, fail) ==
    LET refetched == IF IsSome(telegram_user_opt) /\ fail # "refetch"
                     THEN GetUserByTelegramId(out.tbl, Unwrap(telegram_user_opt).id)
                     ELSE None
    IN  IF ~IsSome(refetched)
        THEN out
        ELSE IF fail = "record"
        THEN [out EXCEPT !.resp = ResponseAfterRecord(out.resp, FALSE)]
        ELSE [out EXCEPT !.tbl = RecordUserInteraction(out.tbl, Unwrap(refetched).id, clock),
                         !.resp = ResponseAfterRecord(out.resp, TRUE)]

\* a plausible slip: a missing text taken for the empty text
MainWithStoreTextDefaulted(tbl, req, clock, fail) ==
    IF req.method # "POST" \/ ~req.json_ok \/ ~IsSome(req.message)
    THEN Main(tbl, req, clock)
    ELSE LET message == Unwrap(req.message)
             text == IF IsSome(message.text) THEN Unwrap(message.text) ELSE <<>>
         IN  IF fail = "service"
             THEN Outcome(tbl, SendMessage(message.chat.id, "Internal error. Try later.", None),
                          NoHandler)
             ELSE RecordInteractionWithStore(
                      RouteTextWithStore(tbl, message.from, message.chat.id, text, clock, fail),
                      message.from, clock, fail)

\* main (the fetch event handler) on one request, with the call `fail` failing
MainWithStore(tbl, req, clock, fail) ==
    IF req.method # "POST" \/ ~req.json_ok \/ ~IsSome(req.message)
    THEN Main(tbl, req, clock)
    ELSE LET message == Unwrap(req.message)
         IN  IF fail = "service"
             THEN Outcome(tbl, SendMessage(message.chat.id, "Internal error. Try later.", None),
                          NoHandler)
             ELSE IF ~IsSome(message.text)
             THEN Outcome(tbl, SendMessage(message.chat.id, "I only understand text.", None),
                          NoHandler)
             ELSE RecordInteractionWithStore(
                      RouteTextWithStore(tbl, message.from, message.chat.id,
                                         Unwrap(message.text), clock, fail),
                      message.from, clock, fail)

StoreChatIds == {501, 502}

StoreTexts == {CmdStart, CmdHelp, TxtName}

StoreSenders == {11}

StoreMessages ==
    [from : {None} \cup {Some(TelegramUser(t)) : t \in StoreSenders},
     chat : [id : StoreChatIds],
     text : {None} \cup {Some(x) : x \in StoreTexts}]

StoreRequests ==
    {[method |-> "POST", json_ok |-> TRUE, message |-> None]}
    \cup {[method |-> "POST", json_ok |-> TRUE, message |-> Some(m)] : m \in StoreMessages}

\* sender 11 named by update_user_name while in Onboarding
TableNamedOnboarding == UpdateUserName(TableStarted, 1, TxtName, 0).tbl

StoreTables == StepTables \cup {TableNamedOnboarding}

InitStore ==
    /\ users \in StoreTables
    /\ now = 0
    /\ last = NoEvent
    /\ calls = [c \in MediaCallers |-> NoCall]
    /\ perm = NoCall
    /\ flights = [w \in Workers |-> NoCall]
    /\ sessions = [c \in ChatIds |-> None]

\* one request handled by main, from its arrival to its result
StoreFetch(req, fail, session_timeout_minutes) ==
    \E out \in {MainWithStore(users, req, now, fail)} :
        /\ users' = out.tbl
        /\ last' = [req |-> Some(req), resp |-> out.resp, handler |-> out.handler,
                    fail |-> fail, timeout |-> session_timeout_minutes,
                    stale |-> /\ FromSender(req)
                              /\ fail \notin {"service", "lookup"}
                              /\ TimeoutLogged(users, out.tbl,
                                               GetUserByTelegramId(users, SenderOf(req)),
                                               now, session_timeout_minutes)]
        /\ UNCHANGED <<now, calls, perm, flights, sessions>>

\* time passes between two requests
StoreTick ==
    /\ now < MaxClock
    /\ now' = now + 1
    /\ UNCHANGED <<users, last, calls, perm, flights, sessions>>

NextStore ==
    \/ \E req \in StoreRequests, fail \in StoreFailures, timeout \in SessionTimeouts :
          StoreFetch(req, fail, timeout)
    \/ StoreTick

StoreSpec == InitStore /\ [][NextStore]_vars

(***************************************************************************)
(* Properties of main with a store that can fail.                          *)
(***************************************************************************)
\* the step handles a request
StoreHandled == Handled /\ now' = now

CarriesMessage(req) == req.method = "POST" /\ req.json_ok /\ IsSome(req.message)

RepliesTo(resp, req) ==
    /\ resp.kind = "sendMessage"
    /\ resp.chat_id = Some(Unwrap(req.message).chat.id)

\* C21: every update that carries a message is answered with one reply
\* addressed to the chat of the message, on every branch
C21_OneReplyPerMessage ==
    [][(StoreHandled /\ CarriesMessage(HandledReq)) => RepliesTo(last'.resp, HandledReq)]_vars

\* the statements on the store made while the handler runs
HandlerStoreCalls == {"lookup", "create", "update"}

GenericFailureReplies ==
    {"Error fetching account.", "Account creation failed.", "Error activating profile.",
     "Error saving name.", "Internal error. Try later."}

\* the request makes the store call that fails
CallMade(tbl, req, clock, fail) ==
    MainWithStore(tbl, req, clock, fail) # MainWithStore(tbl, req, clock, "none")

\* C22: a store call that fails while a message is handled ends in a fixed
\* generic failure reply; the error is not the result of the request
C22_StoreErrorsConverted ==
    [][(/\ StoreHandled
        /\ last'.fail \in HandlerStoreCalls
        /\ CallMade(users, HandledReq, now, last'.fail))
          => /\ RepliesTo(last'.resp, HandledReq)
             /\ last'.resp.text \in GenericFailureReplies]_vars

Textless(req) == CarriesMessage(req) /\ ~IsSome(Unwrap(req.message).text)

\* C23: a message without a text is answered with the text-only reply and
\* changes no state: no row is created and no field or timestamp of a row is
\* written, whether or not the sender is known
C23_TextlessNoStateChange ==
    [][(StoreHandled /\ Textless(HandledReq))
          => /\ users' = users
             /\ RepliesTo(last'.resp, HandledReq)
             /\ last'.fail # "service" => last'.resp.text = "I only understand text."]_vars

\* a message without a text of a sender whose row was last written before
\* now was answered with the text-only reply
C23_Witness ==
    /\ IsSome(last.req)
    /\ Textless(Unwrap(last.req))
    /\ last.resp.text = "I only understand text."
    /\ IsSome(Unwrap(Unwrap(last.req).message).from)
    /\ \E i \in 1..Len(users) :
          /\ users[i].telegram_id = Unwrap(Unwrap(Unwrap(last.req).message).from).id
          /\ users[i].last_interaction_at < now

(***************************************************************************)
(* Properties of concurrent calls of the media key methods.                *)
(***************************************************************************)
\* the list a successful call leaves when it runs alone on the list keys
AppliedAlone(call, keys) ==
    IF call.op = "add"
    THEN IF Contains(keys, call.key) THEN keys ELSE Append(keys, call.key)
    ELSE SelectSeq(keys, LAMBDA k : k # call.key)

\* the call succeeds when it runs alone on the list keys
SucceedsAlone(call, keys) ==
    call.op = "add" => Len(keys) < MAX_USER_MEDIA_ITEMS

\* the lists two successful calls leave when one runs after the other
SerialResults(a, b, keys) ==
    {AppliedAlone(y, AppliedAlone(x, keys)) :
        <<x, y>> \in {p \in {<<a, b>>, <<b, a>>} :
                         /\ SucceedsAlone(p[1], keys)
                         /\ SucceedsAlone(p[2], AppliedAlone(p[1], keys))}}

BothSucceeded(c, d) ==
    /\ c # d
    /\ calls[c].pc = "returned" /\ calls[d].pc = "returned"
    /\ calls[c].result = MediaOk /\ calls[d].result = MediaOk
    /\ calls[c].user_id = calls[d].user_id

\* C24: whatever the interleaving of two adds or removes on one user that
\* both succeed, the stored list is the one some sequential order of the two
\* calls leaves, from the list the first of them read
C24_MediaCallsSerializable ==
    \A c, d \in MediaCallers :
       BothSucceeded(c, d) =>
          \E first \in {c, d} :
             StoredKeys(users, calls[c].user_id)
                \in SerialResults(calls[c], calls[d], calls[first].read_keys)

(***************************************************************************)
(* Properties of main statement by statement: names, creation races and    *)
(* blocked users.                                                          *)
(***************************************************************************)
\* C25: of two onboarding messages with different valid names handled at
\* the same time at most one is accepted: a name stored with the state
\* Active is not overwritten by the other onboarding message
C25_StoredNameKept ==
    [][\A w \in Workers, i \in 1..Len(users) :
          (/\ HandledBy(w)
           /\ IsFreeTextMessage(flights[w].req)
           /\ users[i].state = "Active"
           /\ IsSome(users[i].name))
          => users'[i].name = users[i].name]_vars

\* C26: when the creation in the start handler fails because the row of the
\* external id was created meanwhile, the handler replies as for that
\* existing user
C26_CreateConflictRefetched ==
    [][\A w \in Workers :
          (/\ HandledBy(w)
           /\ CreatesUser(w)
           /\ RowsOf(users, SenderOf(flights[w].req)) # {})
          => flights'[w].resp =
                Some(StartExisting(users,
                                   Unwrap(GetUserByTelegramId(users, SenderOf(flights[w].req))),
                                   Unwrap(flights[w].req.message).chat.id, now).resp)]_vars

\* worker w makes a statement of a message in this step
MessageStep(w) == flights'[w] # flights[w]

\* C27: no inbound message changes the state or the name of a user whose
\* stored state is Blocked
C27_BlockedAbsorbing ==
    [][\A w \in Workers, i \in 1..Len(users) :
          (MessageStep(w) /\ users[i].state = "Blocked")
          => /\ users'[i].state = "Blocked"
             /\ users'[i].name = users[i].name]_vars

(***************************************************************************)
(* Properties of main with a store that can fail: the timeout check and    *)
(* the recording of the interaction.                                       *)
(***************************************************************************)
\* the rows of the sender of a request, as they are before it is handled
SenderRows(tbl, req) == {tbl[i] : i \in RowsOf(tbl, SenderOf(req))}

\* C28: for a command message of an existing user the timeout check
\* compares the threshold with the last_interaction_at the row had before any
\* write of the request, and a user in Onboarding is never flagged
C28_TimeoutOnPreUpdateValue ==
    [][(/\ StoreHandled
        /\ IsCommandMessage(HandledReq)
        /\ last'.fail \notin {"service", "lookup"})
          => \A row \in SenderRows(users, HandledReq) :
                /\ last'.stale = (/\ now - row.last_interaction_at > last'.timeout
                                  /\ row.state # "Onboarding")
                /\ row.state = "Onboarding" => ~last'.stale]_vars

\* a command of a user was flagged as timed out, and the same request wrote
\* the current time to last_interaction_at
C28_Witness ==
    /\ IsSome(last.req)
    /\ IsCommandMessage(Unwrap(last.req))
    /\ last.stale
    /\ \E row \in SenderRows(users, Unwrap(last.req)) :
          row.last_interaction_at = now /\ now > last.timeout

\* C29: a failure of record_user_interaction does not change the reply: the
\* result is the one the handler computed, whatever the call returns
C29_RecordFailureKeepsReply ==
    [][(StoreHandled /\ last'.fail \in {"record", "none"})
          => /\ last'.resp = MainWithStore(users, HandledReq, now, "refetch").resp
             /\ (CarriesMessage(HandledReq) => RepliesTo(last'.resp, HandledReq))]_vars

\* record_user_interaction failed for a command of a known user, the stamps
\* of the row are the old ones and the reply is the handler's
C29_Witness ==
    /\ IsSome(last.req)
    /\ last.fail = "record"
    /\ IsCommandMessage(Unwrap(last.req))
    /\ last.resp.kind = "sendMessage"
    /\ \E row \in SenderRows(users, Unwrap(last.req)) : row.last_interaction_at < now

(***************************************************************************)
(* Properties of the dispatcher with editing sessions: repeated replies.   *)
(***************************************************************************)
\* a media deletion of the chat was completed and the chat has no session
DeletionCompleted(chat_id) ==
    /\ sessions[chat_id] = None
    /\ \E v \in SessionWorkers :
          /\ flights[v].pc \in {"answered", "refetched", "done"}
          /\ IsSome(flights[v].applied)
          /\ Unwrap(flights[v].applied).step.tag = "AwaitingMediaDeletionChoice"
          /\ ChatOf(flights[v]) = chat_id

\* worker w handles the reply "2" of a known user, having read no session,
\* after a media deletion of the chat was completed
RepeatedReply(w) ==
    /\ Classifies(w)
    /\ IsSome(flights[w].found)
    /\ ~IsSome(flights[w].session)
    /\ TrimmedTextOf(flights[w].req) = TxtTwo
    /\ DeletionCompleted(ChatOf(flights[w]))

SelectsRemovedKey(w) ==
    /\ Classifies(w)
    /\ flights'[w].pc = "writing"
    /\ ~Contains(MediaOf(users, flights[w]), flights'[w].key)

RemoveWrites(c) ==
    /\ calls[c].pc = "writing"
    /\ calls[c].op = "remove"
    /\ calls'[c].pc = "returned"

\* the keys of the user's stored list that the step takes out of it
KeysTakenOut(user_id) ==
    {StoredKeys(users, user_id)[i] : i \in 1..Len(StoredKeys(users, user_id))}
       \ {StoredKeys(users', user_id)[i] : i \in 1..Len(StoredKeys(users', user_id))}

\* C31: a deletion of a key chosen from a snapshot, whatever the list has
\* become since, takes no key other than the chosen one out of the stored
\* list: the key is checked against the list that is current when the
\* deletion is committed
C31_OnlyChosenKeyRemoved ==
    [][\A c \in MediaCallers :
          RemoveWrites(c) => KeysTakenOut(calls[c].user_id) \subseteq {calls[c].key}]_vars

(***************************************************************************)
(* Properties of a handler that dies between the step applied and the      *)
(* session deleted.                                                        *)
(***************************************************************************)
\* the rows without their two interaction timestamps
ProfilesOf(tbl) ==
    [i \in 1..Len(tbl) |-> [tbl[i] EXCEPT !.updated_at = 0, !.last_interaction_at = 0]]

\* worker w handles a message of the chat whose handler v died after the
\* step was applied: w read the session store after that, and the session
\* was still there
HandlesAfterCrash(w, v) ==
    /\ flights[v].pc = "crashed"
    /\ flights[w].pc \notin {"idle", "resolved", "crashed"}
    /\ w \notin flights[v].earlier
    /\ ChatOf(flights[w]) = ChatOf(flights[v])
    /\ IsSome(flights[w].session)
    /\ flights'[w] # flights[w]

SessionLost(c) == IsSome(sessions[c]) /\ sessions'[c] # sessions[c]

\* worker w's handler executes EditingSessionStore.delete
Deletes(w) == flights[w].pc = "completing" /\ flights'[w].pc = "answered"

\* the attributes of the rows a flow edits
EditedFieldsOf(tbl) == [i \in 1..Len(tbl) |-> <<tbl[i].bio, tbl[i].media_keys>>]

InitiatesWithoutMedia(w) ==
    /\ Classifies(w)
    /\ IsSome(flights[w].found)
    /\ ~IsSome(flights[w].session)
    /\ InitiatedFlow(TrimmedTextOf(flights[w].req)) = "delete_media"
    /\ Unwrap(flights[w].found).media_keys = <<>>

UpdateUserAgeEveryRow(tbl, user_id, age, clock) ==
    LET tbl2 == [i \in 1..Len(tbl) |->
                    [tbl[i] EXCEPT !.age = Some(age),
                                   !.updated_at = clock, !.last_interaction_at = clock]]
        got == GetUserById(tbl2, user_id)
    IN  [ok |-> IsSome(got), tbl |-> tbl2, user |-> got]

\* UserService::update_user_age: UPDATE users SET age=?1, ... WHERE id=?3 RETURNING
UpdateUserAge(tbl, user_id, age, clock) ==
    LET tbl2 == [i \in 1..Len(tbl) |->
                    IF tbl[i].id = user_id
                    THEN [tbl[i] EXCEPT !.age = Some(age),
                                        !.updated_at = clock, !.last_interaction_at = clock]
                    ELSE tbl[i]]
        got == GetUserById(tbl2, user_id)
    IN  [ok |-> IsSome(got), tbl |-> tbl2, user |-> got]

\* UserService::update_user_gender: UPDATE users SET gender=?1, ... WHERE id=?3 RETURNING
UpdateUserGender(tbl, user_id, gender, clock) ==
    LET tbl2 == [i \in 1..Len(tbl) |->
                    IF tbl[i].id = user_id
                    THEN [tbl[i] EXCEPT !.gender = Some(gender),
                                        !.updated_at = clock, !.last_interaction_at = clock]
                    ELSE tbl[i]]
        got == GetUserById(tbl2, user_id)
    IN  [ok |-> IsSome(got), tbl |-> tbl2, user |-> got]

\* UserService::update_user_location: UPDATE users SET location_text=?1,
\* latitude=?2, longitude=?3, ... WHERE id=?5 RETURNING; the three arguments
\* are Options
UpdateUserLocation(tbl, user_id, location_text, latitude, longitude, clock) ==
    LET tbl2 == [i \in 1..Len(tbl) |->
                    IF tbl[i].id = user_id
                    THEN [tbl[i] EXCEPT !.location_text = location_text,
                                        !.latitude = latitude, !.longitude = longitude,
                                        !.updated_at = clock, !.last_interaction_at = clock]
                    ELSE tbl[i]]
        got == GetUserById(tbl2, user_id)
    IN  [ok |-> IsSome(got), tbl |-> tbl2, user |-> got]

\* add_media_key_to_user with no other statement between its read and its
\* UPDATE
AddMediaKeyToUser(tbl, user_id, r2_object_key, clock) ==
    LET got == GetUserById(tbl, user_id)
        local == AddMediaKeyLocal(Unwrap(got), r2_object_key)
    IN  IF ~IsSome(got) THEN [ok |-> FALSE, tbl |-> tbl, user |-> None]
        ELSE IF ~local.ok THEN [ok |-> FALSE, tbl |-> tbl, user |-> None]
        ELSE UpdateUserMediaKeys(tbl, user_id, local.media_keys, clock)

\* remove_media_key_from_user with no other statement between its read and
\* its UPDATE
RemoveMediaKeyFromUser(tbl, user_id, r2_object_key_to_remove, clock) ==
    LET got == GetUserById(tbl, user_id)
    IN  IF ~IsSome(got) THEN [ok |-> FALSE, tbl |-> tbl, user |-> None]
        ELSE UpdateUserMediaKeys(tbl, user_id,
                                 RetainKeys(Unwrap(got).media_keys, r2_object_key_to_remove),
                                 clock)

\* the ids the callers name: the rows of the table, when it has them
FieldUserIds == {1, 2}

FieldMediaKeys == {"k1", "k2"}

\* the arguments of update_user_location: a place, and nothing
FieldLocations == {<<Some(<<"x">>), Some(52), Some(13)>>, <<None, None, None>>}

\* the method called last, the id it named and the number of calls made
FieldCall(op, user_id, n) == [op |-> op, user_id |-> user_id, n |-> n]

\* one more call is made, of method op for user_id
FieldCalled(op, user_id) ==
    /\ last.n < MaxCalls
    /\ last' = FieldCall(op, user_id, last.n + 1)

\* the tables the calls start from: no row, and the rows of 11 and 12 as
\* create_user_from_telegram_user inserted them
FieldTables ==
    LET one == CreateUserFromTelegramUser(<<>>, TelegramUser(11), 0).tbl
    IN  {<<>>, one, CreateUserFromTelegramUser(one, TelegramUser(12), 0).tbl}

InitField ==
    /\ users \in FieldTables
    /\ now = 0
    /\ last = FieldCall("none", 0, 0)
    /\ calls = [c \in MediaCallers |-> NoCall]
    /\ perm = NoCall
    /\ flights = [w \in Workers |-> NoCall]
    /\ sessions = [c \in ChatIds |-> None]

FieldCreate(telegram_id) ==
    /\ \E out \in {CreateUserFromTelegramUser(users, TelegramUser(telegram_id), now)} :
          /\ users' = out.tbl
          /\ FieldCalled("create", IF out.ok THEN Unwrap(out.user).id ELSE 0)
    /\ UNCHANGED <<now, calls, perm, flights, sessions>>

FieldUpdateName(user_id) ==
    /\ users' = UpdateUserName(users, user_id, TxtName, now).tbl
    /\ FieldCalled("name", user_id)
    /\ UNCHANGED <<now, calls, perm, flights, sessions>>

FieldUpdateAge(user_id) ==
    /\ users' = UpdateUserAge(users, user_id, 30, now).tbl
    /\ FieldCalled("age", user_id)
    /\ UNCHANGED <<now, calls, perm, flights, sessions>>

FieldUpdateGender(user_id) ==
    /\ users' = UpdateUserGender(users, user_id, <<"f">>, now).tbl
    /\ FieldCalled("gender", user_id)
    /\ UNCHANGED <<now, calls, perm, flights, sessions>>

FieldUpdateBio(user_id) ==
    /\ users' = UpdateUserBio(users, user_id, TxtHello, now).tbl
    /\ FieldCalled("bio", user_id)
    /\ UNCHANGED <<now, calls, perm, flights, sessions>>

FieldUpdateLocation(user_id, loc) ==
    /\ users' = UpdateUserLocation(users, user_id, loc[1], loc[2], loc[3], now).tbl
    /\ FieldCalled("location", user_id)
    /\ UNCHANGED <<now, calls, perm, flights, sessions>>

FieldUpdateStateAndName(user_id) ==
    /\ users' = UpdateUserStateAndName(users, user_id, Some(TxtName), "Active", now).tbl
    /\ FieldCalled("state_and_name", user_id)
    /\ UNCHANGED <<now, calls, perm, flights, sessions>>

FieldRecordInteraction(user_id) ==
    /\ users' = RecordUserInteraction(users, user_id, now)
    /\ FieldCalled("record", user_id)
    /\ UNCHANGED <<now, calls, perm, flights, sessions>>

FieldAddMedia(user_id, key) ==
    /\ users' = AddMediaKeyToUser(users, user_id, key, now).tbl
    /\ FieldCalled("add_media", user_id)
    /\ UNCHANGED <<now, calls, perm, flights, sessions>>

FieldRemoveMedia(user_id, key) ==
    /\ users' = RemoveMediaKeyFromUser(users, user_id, key, now).tbl
    /\ FieldCalled("remove_media", user_id)
    /\ UNCHANGED <<now, calls, perm, flights, sessions>>

NextField ==
    \/ \E t \in TelegramIds : FieldCreate(t)
    \/ \E id \in FieldUserIds : FieldUpdateName(id)
    \/ \E id \in FieldUserIds : FieldUpdateAge(id)
    \/ \E id \in FieldUserIds : FieldUpdateGender(id)
    \/ \E id \in FieldUserIds : FieldUpdateBio(id)
    \/ \E id \in FieldUserIds, loc \in FieldLocations : FieldUpdateLocation(id, loc)
    \/ \E id \in FieldUserIds : FieldUpdateStateAndName(id)
    \/ \E id \in FieldUserIds : FieldRecordInteraction(id)
    \/ \E id \in FieldUserIds, k \in FieldMediaKeys : FieldAddMedia(id, k)
    \/ \E id \in FieldUserIds, k \in FieldMediaKeys : FieldRemoveMedia(id, k)
    \/ Tick

FieldSpec == InitField /\ [][NextField]_vars

(***************************************************************************)
(* Properties of the methods that write one row.                           *)
(***************************************************************************)
\* a call of the method op was made in this step
FieldCallMade(op) == now' = now /\ last' # last /\ last'.op = op

\* the columns the method is to set, the two interaction timestamps aside
TargetsOf(op) ==
    CASE op = "name" -> {"name"}
      [] op = "age" -> {"age"}
      [] op = "gender" -> {"gender"}
      [] op = "bio" -> {"bio"}
      [] op = "location" -> {"location_text", "latitude", "longitude"}
      [] op \in {"add_media", "remove_media"} -> {"media_keys"}
      [] OTHER -> {}

SingleFieldOps == {"name", "age", "gender", "bio", "location", "add_media", "remove_media"}

\* row after differs from row before in the given columns at most
SameExcept(before, after, columns) ==
    /\ DOMAIN after = DOMAIN before
    /\ \A column \in DOMAIN before \ columns : after[column] = before[column]

\* C35: a single-field update and a media add or remove leave the table
\* with the same rows, change no row but the one of the id named, and in
\* that row only the targeted attribute, updated_at and last_interaction_at
C35_OnlyTargetedAttribute ==
    [][\A op \in SingleFieldOps :
          FieldCallMade(op) =>
             /\ Len(users') = Len(users)
             /\ \A i \in 1..Len(users) :
                   IF users[i].id = last'.user_id
                   THEN SameExcept(users[i], users'[i],
                                   TargetsOf(op) \cup {"updated_at", "last_interaction_at"})
                   ELSE users'[i] = users[i]]_vars

\* the age of user 1 was set at time 1: the row has its age and the stamp,
\* the row of user 2 is as it was created
C35_Witness ==
    /\ last.op = "age"
    /\ last.user_id = 1
    /\ Len(users) = 2
    /\ users[1].age = Some(30)
    /\ users[1].updated_at = 1
    /\ users[1].created_at = 0
    /\ users[2] = NewUser(<<users[1]>>, TelegramUser(users[2].telegram_id), 0)

(***************************************************************************)
(* Properties of the stored media list: no key twice, keys in the order    *)
(* they were added.                                                        *)
(***************************************************************************)
\* caller d's add ran after caller c's add on the same user: both returned
\* Ok, each pushed a key its list did not hold, and d read what c had
\* written
AddedInSequence(c, d) ==
    /\ c # d
    /\ calls[c].pc = "returned" /\ calls[d].pc = "returned"
    /\ calls[c].op = "add" /\ calls[d].op = "add"
    /\ calls[c].result = MediaOk /\ calls[d].result = MediaOk
    /\ calls[c].user_id = calls[d].user_id
    /\ ~Contains(calls[c].read_keys, calls[c].key)
    /\ calls[d].read_keys = Append(calls[c].read_keys, calls[c].key)
    /\ ~Contains(calls[d].read_keys, calls[d].key)

\* C36: whatever the interleaving of the adds and removes, no stored media
\* list holds a key twice; and two adds of distinct new keys, one after the
\* other, leave the list they started from followed by the two keys in the
\* order they were added
C36_NoDuplicatesInsertionOrder ==
    /\ \A i \in 1..Len(users) : Distinct(users[i].media_keys)
    /\ \A c, d \in MediaCallers :
          AddedInSequence(c, d) =>
             StoredKeys(users, calls[c].user_id)
                = calls[c].read_keys \o <<calls[c].key, calls[d].key>>

\* k6 and then k3 were added to the list k1, k2 of user 1, which holds
\* k1, k2, k6, k3
C36_Witness ==
    \E c, d \in MediaCallers :
       /\ AddedInSequence(c, d)
       /\ calls[c].user_id = 1
       /\ calls[c].key = "k6"
       /\ calls[d].key = "k3"
       /\ StoredKeys(users, 1) = <<"k1", "k2", "k6", "k3">>

(***************************************************************************)
(* Invariants of the rows that message handling writes.                    *)
(***************************************************************************)
\* C37: from the empty table, every row whose state is Active has a name,
\* so its profile is complete, and no stored name is empty or begins
\* with the command prefix
C37_ActiveUsersNamed ==
    \A i \in 1..Len(users) :
       /\ users[i].state = "Active"
          => IsSome(users[i].name) /\ IsProfileComplete(users[i])
       /\ IsSome(users[i].name)
          => /\ Unwrap(users[i].name) # <<>>
             /\ ~StartsWith(Unwrap(users[i].name), Slash)

\* the padded name of a sender in Onboarding was accepted: the row is
\* Active and holds the trimmed text as its name
C37_Witness ==
    /\ IsSome(last.req)
    /\ IsFreeTextMessage(Unwrap(last.req))
    /\ Unwrap(Unwrap(Unwrap(last.req).message).text) = TxtNamePadded
    /\ last.resp.text = "Great, {}! Profile complete. Menu"
    /\ \E i \in RowsOf(users, SenderOf(Unwrap(last.req))) :
          /\ users[i].state = "Active"
          /\ users[i].name = Some(TxtName)
          /\ IsProfileComplete(users[i])

(***************************************************************************)
(* Properties of the state column under message handling.                  *)
(***************************************************************************)
\* C38: a step of the handling of a message changes the state of a stored
\* row only from Onboarding to Active, changes no row's roles, removes no
\* row, and a row it inserts is in Onboarding: no row is ever New, none
\* returns to Onboarding and none becomes Blocked
C38_OnboardingToActiveOnly ==
    [][\A w \in Workers :
          MessageStep(w) =>
             /\ Len(users') >= Len(users)
             /\ \A i \in 1..Len(users) :
                   /\ \/ users'[i].state = users[i].state
                      \/ users[i].state = "Onboarding" /\ users'[i].state = "Active"
                   /\ users'[i].roles = users[i].roles
             /\ \A i \in (Len(users) + 1)..Len(users') :
                   users'[i].state = "Onboarding"]_vars

(***************************************************************************)
(* Properties of the letter case of command names.                         *)
(***************************************************************************)
\* the commands the User role is allowed
UserAllowList == {CmdStart, CmdFindMatch, CmdProfile, CmdHelp}

\* the request with the text of its message in lower case
LowerCaseForm(req) ==
    [req EXCEPT !.message =
        Some([Unwrap(req.message) EXCEPT
                 !.text = Some(ToLowercase(Unwrap(Unwrap(req.message).text)))])]

\* the request is a command of the user allow-list, in whatever letter
\* case, sent by a user whose row has the User role alone
AllowListedCommandOfUser(tbl, req) ==
    /\ IsCommandMessage(req)
    /\ ToLowercase(TrimmedTextOf(req)) \in UserAllowList
    /\ \E i \in RowsOf(tbl, SenderOf(req)) : tbl[i].roles = <<"User">>

\* C39: a command of the user allow-list sent by a User-role user in any
\* letter case is handled as its lower-case form is: the same handler, the
\* same reply and the same table, and never the unknown-command reply
C39_CommandCaseInsensitive ==
    [][(Handled /\ AllowListedCommandOfUser(users, HandledReq)) =>
          /\ last'.handler = Main(users, LowerCaseForm(HandledReq), now).handler
          /\ last'.resp = Main(users, LowerCaseForm(HandledReq), now).resp
          /\ users' = Main(users, LowerCaseForm(HandledReq), now).tbl
          /\ last'.resp.text # "Unknown command: {}. Try /help."]_vars

(***************************************************************************)
(* Properties of the three timestamps.                                     *)
(***************************************************************************)
\* C40: whatever method of user_service is called, create, an update, a
\* media add or remove or record_user_interaction, afterwards every row has
\* updated_at equal to last_interaction_at, and no row that existed has
\* another created_at than before
C40_TimestampsInStep ==
    [][/\ Len(users') >= Len(users)
       /\ \A i \in 1..Len(users') :
             users'[i].updated_at = users'[i].last_interaction_at
       /\ \A i \in 1..Len(users) :
             users'[i].created_at = users[i].created_at]_vars

\* record_user_interaction was called at time 1 for the user created at
\* time 0: both interaction timestamps are 1 and created_at is 0
C40_Witness ==
    /\ last.op = "record"
    /\ \E i \in 1..Len(users) :
          /\ users[i].id = last.user_id
          /\ users[i].created_at = 0
          /\ users[i].updated_at = 1
          /\ users[i].last_interaction_at = 1

====
